---- MODULE Spec2Model ----
(***************************************************************************)
(* Model of the 3D energy-grid simulation (package src/agentes):           *)
(* EntornoOperacion (grid, registries), AgenteReflejoMonstruo,             *)
(* AgenteRacionalRobot (sensors, tabla_mapeo, effectors, memory) and the   *)
(* manual tick driver Visualizador3DManual._tick.                          *)
(***************************************************************************)
EXTENDS Integers, Sequences, FiniteSets, TLC

\* ------------------------------------------------------------------------
\* Bounds of the model and program constants
\* ------------------------------------------------------------------------
N == 3
MaxTick == 2
MaxLibres == 2
MaxLlamadas == 1
MaxRegistros == 2
MaxGiros == 4
MaxHistorial == 6
Margen == 1
MaxEntidades == 2
MaxOperaciones == 4

Nrobots == 2
Nmonstruos == 2
K_monstruo == 3

ZONA_LIBRE == 0
ZONA_VACIA == 1

None == "None"

\* None where a coordinate triple is expected
NoPos == <<>>

\* ------------------------------------------------------------------------
\* Geometry
\* ------------------------------------------------------------------------
Coord == 0..(N - 1)
Celdas == Coord \X Coord \X Coord

ORIENTACIONES ==
    ("+X" :> <<1, 0, 0>>) @@ ("-X" :> <<-1, 0, 0>>) @@
    ("+Y" :> <<0, 1, 0>>) @@ ("-Y" :> <<0, -1, 0>>) @@
    ("+Z" :> <<0, 0, 1>>) @@ ("-Z" :> <<0, 0, -1>>)

\* iteration order of the dict _ORIENTACIONES / _DIRECCIONES
OrdenOrientaciones == <<"+X", "-X", "+Y", "-Y", "+Z", "-Z">>

ORIENTACIONES_CICLICAS == <<"+X", "+Y", "-X", "-Y">>

Sumar(p, d) == <<p[1] + d[1], p[2] + d[2], p[3] + d[3]>>

Negar(d) == <<0 - d[1], 0 - d[2], 0 - d[3]>>

Centro == <<N \div 2, N \div 2, N \div 2>>

\* ------------------------------------------------------------------------
\* EntornoOperacion: grid generation and cell query
\* ------------------------------------------------------------------------
\* sorteo[c] = TRUE iff the draw random.random() < Psoft came out for cell c
GenerarEntornoAleatorio(sorteo) ==
    [c \in Celdas |->
        IF c = Centro THEN ZONA_LIBRE
        ELSE IF sorteo[c] THEN ZONA_VACIA ELSE ZONA_LIBRE]

\* cells whose draw may come out Zona Libre in the bounded family of draws
Arena == {Sumar(Centro, d) : d \in {<<1, 0, 0>>, <<0, 1, 0>>, <<0, 0, 1>>}} \cap Celdas

Sorteos ==
    {[c \in Celdas |-> c \notin L] :
        L \in {S \in SUBSET Arena : Cardinality(S) <= MaxLibres}}

\* fault: the lower limits are not tested, and the array index of a negative
\* coordinate counts from the end of the axis
obtener_tipo_celda_sin_limite_inferior(g, p) ==
    IF p[1] < N /\ p[2] < N /\ p[3] < N
    THEN g[<<p[1] % N, p[2] % N, p[3] % N>>]
    ELSE ZONA_VACIA

obtener_tipo_celda(g, p) ==
    IF /\ 0 <= p[1] /\ p[1] < N
       /\ 0 <= p[2] /\ p[2] < N
       /\ 0 <= p[3] /\ p[3] < N
    THEN g[p]
    ELSE ZONA_VACIA

\* ------------------------------------------------------------------------
\* State
\* ------------------------------------------------------------------------
VARIABLES
    grid,          \* entorno.grid
    robotObj,      \* robot objects, by reference (index)
    robots,        \* entorno.robots: list of references
    monstruoObj,   \* monster objects, by reference (index)
    monstruos,     \* entorno.monstruos: list of references
    tick_actual,   \* Visualizador3DManual.tick_actual
    fase,          \* position of the driver
    cola,          \* snapshot list(...) still to be iterated in this tick
    percepcion,    \* percept of the last robot cycle
    decision,      \* decision of the last robot cycle
    evento,        \* event returned by the last agent cycle / effector call
    registro,      \* the last direct call of a registry or query operation
    llamadas,      \* number of direct API calls made
    azar,          \* state of the module random: streams, seed, position
    replica,       \* the first of two environments built, with the seeds given
                   \* and the results of the registrations made on each
    entidades,     \* Mundo.entidades of src/andres: position -> entity reference
    posicion,      \* the attribute posicion of each entity of src/andres
    entidades_activas, \* Entorno3D.entidades_activas of src/john
    estadisticas,  \* Entorno3D.estadisticas of src/john
    traza          \* ghost: the agent cycles of _tick, or the direct calls of
                   \* _reorientador, made so far

vars == <<grid, robotObj, robots, monstruoObj, monstruos, tick_actual, fase,
          cola, percepcion, decision, evento, registro, llamadas, traza, azar, replica, entidades, posicion,
          entidades_activas, estadisticas>>

\* the positions of the registered agents, in registry order
RobotsEn(w) == [k \in 1..Len(w.robots) |-> w.robotObj[w.robots[k]]]
MonstruosEn(w) == [k \in 1..Len(w.monstruos) |-> w.monstruoObj[w.monstruos[k]]]

Mundo == [grid |-> grid, robotObj |-> robotObj, robots |-> robots,
          monstruoObj |-> monstruoObj, monstruos |-> monstruos]

Rango(s) == {s[k] : k \in 1..Len(s)}

\* ------------------------------------------------------------------------
\* Constructors
\* ------------------------------------------------------------------------
NuevoRobot(id, p, orientacion) ==
    [id |-> id, pos |-> p, orientacion |-> orientacion,
     vacuscopio_activado |-> FALSE, posicion_anterior |-> p,
     historial |-> <<>>]

NuevoMonstruo(id, p) ==
    [id |-> id, pos |-> p, acciones_realizadas |-> 0]

\* ------------------------------------------------------------------------
\* EntornoOperacion: registration and removal
\* ------------------------------------------------------------------------
\* fault: the occupancy test of registrar_robot is left out
RobotAceptado_sin_ocupacion(w, robot) ==
    obtener_tipo_celda(w.grid, robot.pos) # ZONA_VACIA

RobotAceptado(w, robot) ==
    /\ obtener_tipo_celda(w.grid, robot.pos) # ZONA_VACIA
    /\ ~ \E k \in 1..Len(w.robots) : w.robotObj[w.robots[k]].pos = robot.pos

registrar_robot(w, robot) ==
    IF RobotAceptado(w, robot)
    THEN [ok |-> TRUE,
          w |-> [w EXCEPT !.robotObj = Append(w.robotObj, robot),
                          !.robots = Append(w.robots, Len(w.robotObj) + 1)]]
    ELSE [ok |-> FALSE, w |-> w]

MonstruoAceptado(w, monstruo) ==
    /\ obtener_tipo_celda(w.grid, monstruo.pos) # ZONA_VACIA
    /\ ~ \E k \in 1..Len(w.monstruos) : w.monstruoObj[w.monstruos[k]].pos = monstruo.pos

\* fault: the monster is appended before the two tests are made
registrar_monstruo_inserta_antes(w, monstruo) ==
    [ok |-> MonstruoAceptado(w, monstruo),
     w |-> [w EXCEPT !.monstruoObj = Append(w.monstruoObj, monstruo),
                     !.monstruos = Append(w.monstruos, Len(w.monstruoObj) + 1)]]

registrar_monstruo(w, monstruo) ==
    IF MonstruoAceptado(w, monstruo)
    THEN [ok |-> TRUE,
          w |-> [w EXCEPT !.monstruoObj = Append(w.monstruoObj, monstruo),
                          !.monstruos = Append(w.monstruos, Len(w.monstruoObj) + 1)]]
    ELSE [ok |-> FALSE, w |-> w]

\* fault: the id is used as the place of the robot in the list
eliminar_robot_por_indice(w, robot_id) ==
    [w EXCEPT !.robots =
        [k \in 1..(Len(w.robots) - (IF robot_id <= Len(w.robots) THEN 1 ELSE 0)) |->
            IF k < robot_id THEN w.robots[k] ELSE w.robots[k + 1]]]

eliminar_robot(w, robot_id) ==
    LET Queda(r) == w.robotObj[r].id # robot_id
    IN [w EXCEPT !.robots = SelectSeq(w.robots, Queda)]

eliminar_monstruo(w, monstruo_id) ==
    LET Queda(m) == w.monstruoObj[m].id # monstruo_id
    IN [w EXCEPT !.monstruos = SelectSeq(w.monstruos, Queda)]

\* ------------------------------------------------------------------------
\* AgenteReflejoMonstruo
\* ------------------------------------------------------------------------
\* fault: only the bounds are tested, not the type of the cell
es_movimiento_valido_sin_tipo(w, p) ==
    /\ 0 <= p[1] /\ p[1] < N
    /\ 0 <= p[2] /\ p[2] < N
    /\ 0 <= p[3] /\ p[3] < N

es_movimiento_valido(w, p) ==
    IF ~ (/\ 0 <= p[1] /\ p[1] < N
          /\ 0 <= p[2] /\ p[2] < N
          /\ 0 <= p[3] /\ p[3] < N)
    THEN FALSE
    ELSE w.grid[p] # ZONA_VACIA

\* fault: the six displacements are returned without testing the target cells
obtener_movimientos_validos_sin_filtro(w, self) ==
    OrdenOrientaciones

\* list of displacement labels towards valid cells, in dict order
obtener_movimientos_validos(w, self) ==
    LET Valido(l) == es_movimiento_valido(w, Sumar(self.pos, ORIENTACIONES[l]))
    IN SelectSeq(OrdenOrientaciones, Valido)

percibir_monstruo(w, self) ==
    LET movimientos_validos == obtener_movimientos_validos(w, self)
    IN [id |-> self.id, posicion |-> self.pos,
        movimientos_validos |-> movimientos_validos,
        puede_moverse |-> Len(movimientos_validos) > 0]

\* fault: the activation cycle is not tested
decidir_accion_monstruo_sin_ciclo(p, ciclo_actual, K, supera, eleccion) ==
    IF ~ supera
    THEN [accion |-> "inactivo", param |-> NoPos, razon |-> "no_supera_probabilidad", cuenta |-> 0]
    ELSE IF ~ p.puede_moverse
    THEN [accion |-> "inactivo", param |-> NoPos, razon |-> "sin_movimientos_validos", cuenta |-> 0]
    ELSE LET l == p.movimientos_validos[((eleccion - 1) % Len(p.movimientos_validos)) + 1]
         IN [accion |-> "mover", param |-> Sumar(p.posicion, ORIENTACIONES[l]),
             razon |-> "movimiento_aleatorio", cuenta |-> 1]

\* supera: the draw random.random() > p_movimiento came out FALSE
\* eleccion: the index drawn by random.choice (reduced modulo the list length)
decidir_accion_monstruo(p, ciclo_actual, K, supera, eleccion) ==
    IF ciclo_actual % K # 0
    THEN [accion |-> "inactivo", param |-> NoPos, razon |-> "no_en_ciclo", cuenta |-> 0]
    ELSE IF ~ supera
    THEN [accion |-> "inactivo", param |-> NoPos, razon |-> "no_supera_probabilidad", cuenta |-> 0]
    ELSE IF ~ p.puede_moverse
    THEN [accion |-> "inactivo", param |-> NoPos, razon |-> "sin_movimientos_validos", cuenta |-> 0]
    ELSE LET l == p.movimientos_validos[((eleccion - 1) % Len(p.movimientos_validos)) + 1]
         IN [accion |-> "mover", param |-> Sumar(p.posicion, ORIENTACIONES[l]),
             razon |-> "movimiento_aleatorio", cuenta |-> 1]

ejecutar_accion_monstruo(self, accion, nueva_posicion) ==
    IF accion = "mover" /\ nueva_posicion # NoPos
    THEN [self EXCEPT !.pos = nueva_posicion]
    ELSE self

\* full cycle of monster reference m; returns the new world and the event
percibir_decidir_actuar_monstruo(w, m, t, K, supera, eleccion) ==
    LET self == w.monstruoObj[m]
        p == percibir_monstruo(w, self)
        d == decidir_accion_monstruo(p, t, K, supera, eleccion)
        contado == [self EXCEPT !.acciones_realizadas = @ + d.cuenta]
        movido == ejecutar_accion_monstruo(contado, d.accion, d.param)
        exito == d.accion = "mover" /\ d.param # NoPos
    IN [w |-> [w EXCEPT !.monstruoObj[m] = movido],
        evento |-> [agente |-> "monstruo", ref |-> m, tick |-> t,
                    accion |-> d.accion, exito |-> exito, razon |-> d.razon]]

\* ------------------------------------------------------------------------
\* AgenteRacionalRobot: sensors
\* ------------------------------------------------------------------------
\* fault: the cell behind the robot is scanned as well
detectar_monstruos_sin_exclusion(self, ms, d) ==
    LET Hay(k) == \E j \in 1..Len(ms) :
                     ms[j].pos = Sumar(self.pos, ORIENTACIONES[OrdenOrientaciones[k]])
        hits == {k \in 1..Len(OrdenOrientaciones) : Hay(k)}
    IN IF hits = {}
       THEN <<FALSE, None, None>>
       ELSE LET k == CHOOSE h \in hits : \A g \in hits : h <= g
                dir_label == OrdenOrientaciones[k]
            IN IF ORIENTACIONES[dir_label] = d
               THEN <<TRUE, "al_frente", dir_label>>
               ELSE <<TRUE, "al_lado", dir_label>>

\* self: the robot object; ms: the list of monster objects
detectar_monstruos(self, ms, d) ==
    LET atras == Negar(d)
        Hay(k) == /\ ORIENTACIONES[OrdenOrientaciones[k]] # atras
                  /\ \E j \in 1..Len(ms) :
                        ms[j].pos = Sumar(self.pos, ORIENTACIONES[OrdenOrientaciones[k]])
        hits == {k \in 1..Len(OrdenOrientaciones) : Hay(k)}
    IN IF hits = {}
       THEN <<FALSE, None, None>>
       ELSE LET k == CHOOSE h \in hits : \A g \in hits : h <= g
                dir_label == OrdenOrientaciones[k]
            IN IF ORIENTACIONES[dir_label] = d
               THEN <<TRUE, "al_frente", dir_label>>
               ELSE <<TRUE, "al_lado", dir_label>>

\* fault: the Energometro also answers to a monster in the cell ahead
energometro_celda_frontal(self, ms) ==
    \E j \in 1..Len(ms) :
       \/ ms[j].pos = self.pos
       \/ ms[j].pos = Sumar(self.pos, ORIENTACIONES[self.orientacion])

energometro(self, ms) ==
    \E j \in 1..Len(ms) : ms[j].pos = self.pos

\* fault: the identity test is inverted (r.id == self.id)
roboscanner_id_invertido(self, rs) ==
    LET frente == Sumar(self.pos, ORIENTACIONES[self.orientacion])
    IN \E j \in 1..Len(rs) : rs[j].pos = frente /\ rs[j].id = self.id

roboscanner(self, rs) ==
    LET frente == Sumar(self.pos, ORIENTACIONES[self.orientacion])
    IN \E j \in 1..Len(rs) : rs[j].pos = frente /\ rs[j].id # self.id

\* fault: the Vacuscopio reading is not taken from the memory
percibir_sin_vacuscopio(self, rs, ms) ==
    [giroscopio |-> self.orientacion,
     energometro |-> energometro(self, ms),
     roboscanner |-> roboscanner(self, rs),
     vacuscopio |-> FALSE,
     monstroscopio |-> detectar_monstruos(self, ms, ORIENTACIONES[self.orientacion]),
     posicion_anterior |-> self.posicion_anterior]

\* rs, ms: the lists of robot and monster objects handed to the robot
percibir(self, rs, ms) ==
    [giroscopio |-> self.orientacion,
     energometro |-> energometro(self, ms),
     roboscanner |-> roboscanner(self, rs),
     vacuscopio |-> self.vacuscopio_activado,
     monstroscopio |-> detectar_monstruos(self, ms, ORIENTACIONES[self.orientacion]),
     posicion_anterior |-> self.posicion_anterior]

\* ------------------------------------------------------------------------
\* AgenteRacionalRobot: decision table
\* ------------------------------------------------------------------------
Ausente == "ausente"

Vac == [accion |-> "VACUUMATOR", param |-> Ausente, razon |-> "monstruo_en_celda"]
Obs == [accion |-> "REORIENTADOR", param |-> "+90", razon |-> "obstaculo_detectado"]
Rob == [accion |-> "REORIENTADOR", param |-> "+90", razon |-> "robot_al_frente"]

tabla_mapeo ==
    (<<TRUE, TRUE, <<TRUE, "al_frente">>, TRUE>> :> Vac) @@
    (<<TRUE, TRUE, <<TRUE, "al_lado">>, TRUE>> :> Vac) @@
    (<<TRUE, TRUE, <<TRUE, "al_frente">>, FALSE>> :> Vac) @@
    (<<TRUE, TRUE, <<TRUE, "al_lado">>, FALSE>> :> Vac) @@
    (<<TRUE, TRUE, <<FALSE, None>>, TRUE>> :> Vac) @@
    (<<TRUE, TRUE, <<FALSE, None>>, FALSE>> :> Vac) @@
    (<<TRUE, FALSE, <<TRUE, "al_frente">>, TRUE>> :> Vac) @@
    (<<TRUE, FALSE, <<TRUE, "al_lado">>, TRUE>> :> Vac) @@
    (<<TRUE, FALSE, <<TRUE, "al_frente">>, FALSE>> :> Vac) @@
    (<<TRUE, FALSE, <<TRUE, "al_lado">>, FALSE>> :> Vac) @@
    (<<TRUE, FALSE, <<FALSE, None>>, TRUE>> :> Vac) @@
    (<<TRUE, FALSE, <<FALSE, None>>, FALSE>> :> Vac) @@
    (<<FALSE, TRUE, <<TRUE, "al_frente">>, TRUE>> :> Obs) @@
    (<<FALSE, TRUE, <<TRUE, "al_lado">>, TRUE>> :> Obs) @@
    (<<FALSE, TRUE, <<FALSE, None>>, TRUE>> :> Obs) @@
    (<<FALSE, FALSE, <<TRUE, "al_frente">>, TRUE>> :> Obs) @@
    (<<FALSE, FALSE, <<TRUE, "al_lado">>, TRUE>> :> Obs) @@
    (<<FALSE, FALSE, <<FALSE, None>>, TRUE>> :> Obs) @@
    (<<FALSE, TRUE, <<TRUE, "al_frente">>, FALSE>> :> Rob) @@
    (<<FALSE, TRUE, <<TRUE, "al_lado">>, FALSE>> :> Rob) @@
    (<<FALSE, TRUE, <<FALSE, None>>, FALSE>> :> Rob) @@
    (<<FALSE, FALSE, <<TRUE, "al_frente">>, FALSE>> :>
        [accion |-> "PROPULSOR", param |-> Ausente, razon |-> "monstruo_en_frente"]) @@
    (<<FALSE, FALSE, <<TRUE, "al_lado">>, FALSE>> :>
        [accion |-> "REORIENTADOR", param |-> Ausente, razon |-> "alinear_con_monstruo"]) @@
    (<<FALSE, FALSE, <<FALSE, None>>, FALSE>> :>
        [accion |-> "PROPULSOR", param |-> Ausente, razon |-> "accion_por_defecto"])

\* fault: the first two components of the key are swapped
Clave_intercambiada(p) ==
    <<p.roboscanner, p.energometro,
      <<p.monstroscopio[1], p.monstroscopio[2]>>, p.vacuscopio>>

Clave(p) ==
    <<p.energometro, p.roboscanner,
      <<p.monstroscopio[1], p.monstroscopio[2]>>, p.vacuscopio>>

\* fault: a rule without "param" takes the facing direction as parameter
decidir_accion_param_giroscopio(p) ==
    LET clave == Clave(p)
    IN IF clave \in DOMAIN tabla_mapeo
       THEN LET regla == tabla_mapeo[clave]
            IN [accion |-> regla.accion,
                param |-> IF regla.param # Ausente THEN regla.param
                          ELSE p.giroscopio,
                razon |-> regla.razon]
       ELSE [accion |-> "PROPULSOR", param |-> p.giroscopio,
             razon |-> "accion_por_defecto"]

\* the decision returned by decidir_accion (the reset of the Vacuscopio flag
\* that the method also performs is applied by the callers below)
decidir_accion(p) ==
    LET clave == Clave(p)
    IN IF clave \in DOMAIN tabla_mapeo
       THEN LET regla == tabla_mapeo[clave]
            IN [accion |-> regla.accion,
                param |-> IF regla.param # Ausente THEN regla.param
                          ELSE p.monstroscopio[3],
                razon |-> regla.razon]
       ELSE [accion |-> "PROPULSOR", param |-> p.monstroscopio[3],
             razon |-> "accion_por_defecto"]

\* ------------------------------------------------------------------------
\* AgenteRacionalRobot: effectors (r: reference of the acting robot)
\* ------------------------------------------------------------------------
\* fault: a collision does not activate the Vacuscopio
propulsor_sin_bandera(w, r) ==
    LET self == w.robotObj[r]
        n == Sumar(self.pos, ORIENTACIONES[self.orientacion])
        tipo == obtener_tipo_celda(w.grid, n)
    IN IF tipo = ZONA_LIBRE
       THEN [w |-> [w EXCEPT !.robotObj[r] =
                        [self EXCEPT !.posicion_anterior = self.pos,
                                     !.pos = n,
                                     !.vacuscopio_activado = FALSE]],
             accion |-> "PROPULSOR", exito |-> TRUE, razon |-> "avance_exitoso"]
       ELSE [w |-> w,
             accion |-> "PROPULSOR", exito |-> FALSE, razon |-> "colision_con_pared"]

propulsor(w, r) ==
    LET self == w.robotObj[r]
        n == Sumar(self.pos, ORIENTACIONES[self.orientacion])
        tipo == obtener_tipo_celda(w.grid, n)
    IN IF tipo = ZONA_LIBRE
       THEN [w |-> [w EXCEPT !.robotObj[r] =
                        [self EXCEPT !.posicion_anterior = self.pos,
                                     !.pos = n,
                                     !.vacuscopio_activado = FALSE]],
             accion |-> "PROPULSOR", exito |-> TRUE, razon |-> "avance_exitoso"]
       ELSE [w |-> [w EXCEPT !.robotObj[r] =
                        [self EXCEPT !.vacuscopio_activado = TRUE]],
             accion |-> "PROPULSOR", exito |-> FALSE, razon |-> "colision_con_pared"]

Indice(s, e) == CHOOSE k \in 1..Len(s) : s[k] = e

\* fault: the relative turn cycles through the six orientations
reorientador_ciclo_completo(w, r, sentido) ==
    LET self == w.robotObj[r]
    IN IF sentido \in DOMAIN ORIENTACIONES
       THEN [w |-> [w EXCEPT !.robotObj[r] = [self EXCEPT !.orientacion = sentido]],
             accion |-> "REORIENTADOR", exito |-> TRUE,
             razon |-> "alineacion_directa_con_monstruo"]
       ELSE LET i == Indice(OrdenOrientaciones, self.orientacion) - 1
                nueva == IF sentido = "+90"
                         THEN OrdenOrientaciones[((i + 1) % 6) + 1]
                         ELSE OrdenOrientaciones[((i - 1) % 6) + 1]
            IN [w |-> [w EXCEPT !.robotObj[r] = [self EXCEPT !.orientacion = nueva]],
                accion |-> "REORIENTADOR", exito |-> TRUE,
                razon |-> "rotacion_lateral"]

reorientador(w, r, sentido) ==
    LET self == w.robotObj[r]
    IN IF sentido \in DOMAIN ORIENTACIONES
       THEN [w |-> [w EXCEPT !.robotObj[r] = [self EXCEPT !.orientacion = sentido]],
             accion |-> "REORIENTADOR", exito |-> TRUE,
             razon |-> "alineacion_directa_con_monstruo"]
       ELSE LET base == IF self.orientacion \notin Rango(ORIENTACIONES_CICLICAS)
                        THEN "+X" ELSE self.orientacion
                i == Indice(ORIENTACIONES_CICLICAS, base) - 1
                nueva == IF sentido = "+90"
                         THEN ORIENTACIONES_CICLICAS[((i + 1) % 4) + 1]
                         ELSE ORIENTACIONES_CICLICAS[((i - 1) % 4) + 1]
            IN [w |-> [w EXCEPT !.robotObj[r] = [self EXCEPT !.orientacion = nueva]],
                accion |-> "REORIENTADOR", exito |-> TRUE,
                razon |-> "rotacion_lateral"]

RECURSIVE eliminar_todos(_, _)
eliminar_todos(w, ids) ==
    IF ids = <<>> THEN w
    ELSE eliminar_todos(eliminar_monstruo(w, Head(ids)), Tail(ids))

\* fault: the cell is not turned into a Zona Vacia
vacuumator_sin_zona_vacia(w, r, ms) ==
    LET self == w.robotObj[r]
        EnCelda(m) == w.monstruoObj[m].pos = self.pos
        eliminados == SelectSeq(ms, EnCelda)
        ids == [k \in 1..Len(eliminados) |-> w.monstruoObj[eliminados[k]].id]
    IN [w |-> eliminar_todos(w, ids),
        accion |-> "VACUUMATOR", exito |-> Len(eliminados) > 0,
        razon |-> IF Len(eliminados) > 0 THEN "monstruo_destruido" ELSE "sin_objetivos"]

\* fault: the cell turned into a Zona Vacia is the one ahead of the robot
vacuumator_celda_frontal(w, r, ms) ==
    LET self == w.robotObj[r]
        EnCelda(m) == w.monstruoObj[m].pos = self.pos
        eliminados == SelectSeq(ms, EnCelda)
        ids == [k \in 1..Len(eliminados) |-> w.monstruoObj[eliminados[k]].id]
        sin == eliminar_todos(w, ids)
        frente == Sumar(self.pos, ORIENTACIONES[self.orientacion])
        celda == IF frente \in Celdas THEN frente ELSE self.pos
    IN [w |-> [sin EXCEPT !.grid[celda] = ZONA_VACIA],
        accion |-> "VACUUMATOR", exito |-> Len(eliminados) > 0,
        razon |-> IF Len(eliminados) > 0 THEN "monstruo_destruido" ELSE "sin_objetivos"]

\* ms: the list of monster references handed to the effector
vacuumator(w, r, ms) ==
    LET self == w.robotObj[r]
        EnCelda(m) == w.monstruoObj[m].pos = self.pos
        eliminados == SelectSeq(ms, EnCelda)
        ids == [k \in 1..Len(eliminados) |-> w.monstruoObj[eliminados[k]].id]
        sin == eliminar_todos(w, ids)
    IN [w |-> [sin EXCEPT !.grid[self.pos] = ZONA_VACIA],
        accion |-> "VACUUMATOR", exito |-> Len(eliminados) > 0,
        razon |-> IF Len(eliminados) > 0 THEN "monstruo_destruido" ELSE "sin_objetivos"]

\* param or "+90": a falsy param (None, the empty string) becomes "+90"
ejecutar_accion(w, r, accion, param, ms) ==
    IF accion = "PROPULSOR" THEN propulsor(w, r)
    ELSE IF accion = "REORIENTADOR"
    THEN reorientador(w, r, IF param = None \/ param = "" THEN "+90" ELSE param)
    ELSE IF accion = "VACUUMATOR" THEN vacuumator(w, r, ms)
    ELSE [w |-> w, accion |-> None, exito |-> FALSE, razon |-> "accion_no_reconocida"]

\* ------------------------------------------------------------------------
\* AgenteRacionalRobot: memory and life cycle
\* ------------------------------------------------------------------------
\* bool(percepcion.get('monstroscopio')): truth value of the 3-tuple
Bool(tupla) == Len(tupla) > 0

\* fault: the history keeps only the latest record
actualizar_memoria_sobrescribe(self, t, p, accion) ==
    LET estado_perceptual ==
            [ori |-> p.giroscopio, E |-> p.energometro, R |-> p.roboscanner,
             M |-> Bool(p.monstroscopio), V |-> p.vacuscopio,
             pos_prev |-> p.posicion_anterior]
    IN [self EXCEPT !.historial = <<[t |-> t, p |-> estado_perceptual, a |-> accion]>>]

actualizar_memoria(self, t, p, accion) ==
    LET estado_perceptual ==
            [ori |-> p.giroscopio, E |-> p.energometro, R |-> p.roboscanner,
             M |-> Bool(p.monstroscopio), V |-> p.vacuscopio,
             pos_prev |-> p.posicion_anterior]
    IN [self EXCEPT !.historial =
            Append(@, [t |-> t, p |-> estado_perceptual, a |-> accion])]

\* fault: the decision does not reset the Vacuscopio flag
percibir_decidir_actuar_sin_reinicio(w, r, t, rs, ms) ==
    LET self == w.robotObj[r]
        p == percibir(self,
                      [k \in 1..Len(rs) |-> w.robotObj[rs[k]]],
                      [k \in 1..Len(ms) |-> w.monstruoObj[ms[k]]])
        d == decidir_accion(p)
        recordado == actualizar_memoria(self, t, p, d.accion)
        ev == ejecutar_accion([w EXCEPT !.robotObj[r] = recordado], r, d.accion, d.param, ms)
    IN [w |-> ev.w, percepcion |-> p, decision |-> d,
        evento |-> [agente |-> "robot", ref |-> r, tick |-> t,
                    accion |-> d.accion, exito |-> ev.exito, razon |-> ev.razon]]

\* rs, ms: the lists of robot / monster references handed to the robot
percibir_decidir_actuar(w, r, t, rs, ms) ==
    LET self == w.robotObj[r]
        p == percibir(self,
                      [k \in 1..Len(rs) |-> w.robotObj[rs[k]]],
                      [k \in 1..Len(ms) |-> w.monstruoObj[ms[k]]])
        d == decidir_accion(p)
        reiniciado == [self EXCEPT !.vacuscopio_activado = FALSE]
        recordado == actualizar_memoria(reiniciado, t, p, d.accion)
        ev == ejecutar_accion([w EXCEPT !.robotObj[r] = recordado], r, d.accion, d.param, ms)
    IN [w |-> ev.w, percepcion |-> p, decision |-> d,
        evento |-> [agente |-> "robot", ref |-> r, tick |-> t,
                    accion |-> d.accion, exito |-> ev.exito, razon |-> ev.razon]]

\* ------------------------------------------------------------------------
\* Initial state: EntornoOperacion.__init__
\* ------------------------------------------------------------------------
NoPercepcion ==
    [giroscopio |-> None, energometro |-> FALSE, roboscanner |-> FALSE,
     vacuscopio |-> FALSE, monstroscopio |-> <<FALSE, None, None>>,
     posicion_anterior |-> NoPos]

NoDecision == [accion |-> None, param |-> None, razon |-> None]

NoEvento == [agente |-> None, ref |-> 0, tick |-> 0, accion |-> None,
             exito |-> FALSE, razon |-> None]

NoRegistro == [llamada |-> None, id |-> 0, pos |-> NoPos, ok |-> FALSE]

NoAzar == [flujo |-> <<>>, semilla |-> 0, pos |-> 0]

\* Entorno3D.estadisticas of src/john right after __init__
NoEstadisticas ==
    [choques_registrados |-> 0, destrucciones_conjuntas |-> 0,
     movimientos_validos |-> 0, movimientos_invalidos |-> 0]

NoReplica == [construidos |-> 0, semillas |-> <<>>, w |-> <<>>, aceptados |-> <<<<>>, <<>>>>]

Init ==
    /\ \E sorteo \in Sorteos : grid = GenerarEntornoAleatorio(sorteo)
    /\ robotObj = <<>>
    /\ robots = <<>>
    /\ monstruoObj = <<>>
    /\ monstruos = <<>>
    /\ tick_actual = 0
    /\ fase = "init"
    /\ cola = <<>>
    /\ percepcion = NoPercepcion
    /\ decision = NoDecision
    /\ evento = NoEvento
    /\ registro = NoRegistro
    /\ llamadas = 0
    /\ traza = <<>>
    /\ azar = NoAzar
    /\ replica = NoReplica
    /\ entidades = <<>>
    /\ posicion = <<>>
    /\ entidades_activas = {}
    /\ estadisticas = NoEstadisticas

Poner(w) ==
    /\ grid' = w.grid
    /\ robotObj' = w.robotObj
    /\ robots' = w.robots
    /\ monstruoObj' = w.monstruoObj
    /\ monstruos' = w.monstruos

\* ------------------------------------------------------------------------
\* SimulacionEnergetica._inicializar_agentes
\* ------------------------------------------------------------------------
\* one pass of the first "while True" loop: a robot with id i + 1 at a random
\* position with a random orientation is offered to registrar_robot
InicializarRobot ==
    /\ fase = "init"
    /\ Len(robots) < Nrobots
    /\ \E x \in Coord, y \in Coord, z \in Coord, o \in DOMAIN ORIENTACIONES :
          Poner(registrar_robot(Mundo, NuevoRobot(Len(robots) + 1, <<x, y, z>>, o)).w)
    /\ UNCHANGED <<tick_actual, fase, cola, percepcion, decision, evento,
                   registro, llamadas, traza, azar, replica, entidades, posicion,
                   entidades_activas, estadisticas>>

\* one pass of the second "while True" loop; the constructor returns when the
\* last monster is registered
InicializarMonstruo ==
    /\ fase = "init"
    /\ Len(robots) = Nrobots
    /\ Len(monstruos) < Nmonstruos
    /\ \E x \in Coord, y \in Coord, z \in Coord :
          LET res == registrar_monstruo(Mundo, NuevoMonstruo(Len(monstruos) + 1, <<x, y, z>>))
          IN /\ Poner(res.w)
             /\ fase' = IF Len(res.w.monstruos) = Nmonstruos THEN "espera" ELSE "init"
    /\ UNCHANGED <<tick_actual, cola, percepcion, decision, evento,
                   registro, llamadas, traza, azar, replica, entidades, posicion,
                   entidades_activas, estadisticas>>

\* ------------------------------------------------------------------------
\* Visualizador3DManual._tick
\* ------------------------------------------------------------------------
\* entry of _tick: the loop over list(entorno.monstruos) starts
TickInicio ==
    /\ fase = "espera"
    /\ tick_actual < MaxTick
    /\ fase' = "monstruos"
    /\ cola' = monstruos
    /\ UNCHANGED <<grid, robotObj, robots, monstruoObj, monstruos, tick_actual,
                   percepcion, decision, evento, registro, llamadas, traza, azar, replica, entidades, posicion,
                   entidades_activas, estadisticas>>

\* one iteration of the monster loop
TickMonstruo ==
    /\ fase = "monstruos"
    /\ cola # <<>>
    /\ \E supera \in BOOLEAN, eleccion \in 1..Len(OrdenOrientaciones) :
          LET res == percibir_decidir_actuar_monstruo(Mundo, Head(cola), tick_actual,
                                                      K_monstruo, supera, eleccion)
          IN /\ Poner(res.w)
             /\ evento' = res.evento
    /\ cola' = Tail(cola)
    /\ traza' = Append(traza, [agente |-> "monstruo", ref |-> Head(cola),
                               tick |-> tick_actual])
    /\ UNCHANGED <<tick_actual, fase, percepcion, decision, registro, llamadas, azar, replica, entidades, posicion,
                   entidades_activas, estadisticas>>

\* the monster loop is exhausted: the loop over list(entorno.robots) starts
TickFaseRobots ==
    /\ fase = "monstruos"
    /\ cola = <<>>
    /\ fase' = "robots"
    /\ cola' = robots
    /\ UNCHANGED <<grid, robotObj, robots, monstruoObj, monstruos, tick_actual,
                   percepcion, decision, evento, registro, llamadas, traza, azar, replica, entidades, posicion,
                   entidades_activas, estadisticas>>

\* fault: the loop runs over the live list entorno.robots, so the removal of
\* the acting robot makes the iteration skip the robot that follows it
TickRobot_lista_viva ==
    /\ fase = "robots"
    /\ cola # <<>>
    /\ LET r == Head(cola)
           res == percibir_decidir_actuar(Mundo, r, tick_actual, robots, monstruos)
           destruido == res.evento.accion = "VACUUMATOR" /\ res.evento.exito
           fin == IF destruido
                  THEN eliminar_robot(res.w, res.w.robotObj[r].id)
                  ELSE res.w
       IN /\ Poner(fin)
          /\ percepcion' = res.percepcion
          /\ decision' = res.decision
          /\ evento' = res.evento
          /\ cola' = IF destruido /\ Len(cola) > 1 THEN Tail(Tail(cola)) ELSE Tail(cola)
    /\ traza' = Append(traza, [agente |-> "robot", ref |-> Head(cola),
                               tick |-> tick_actual])
    /\ UNCHANGED <<tick_actual, fase, registro, llamadas, azar, replica, entidades, posicion,
                   entidades_activas, estadisticas>>

\* one iteration of the robot loop: the robot's cycle against the live lists,
\* then the removal of a robot whose Vacuumator succeeded
TickRobot ==
    /\ fase = "robots"
    /\ cola # <<>>
    /\ LET r == Head(cola)
           res == percibir_decidir_actuar(Mundo, r, tick_actual, robots, monstruos)
           fin == IF res.evento.accion = "VACUUMATOR" /\ res.evento.exito
                  THEN eliminar_robot(res.w, res.w.robotObj[r].id)
                  ELSE res.w
       IN /\ Poner(fin)
          /\ percepcion' = res.percepcion
          /\ decision' = res.decision
          /\ evento' = res.evento
    /\ cola' = Tail(cola)
    /\ traza' = Append(traza, [agente |-> "robot", ref |-> Head(cola),
                               tick |-> tick_actual])
    /\ UNCHANGED <<tick_actual, fase, registro, llamadas, azar, replica, entidades, posicion,
                   entidades_activas, estadisticas>>

\* fault: the tick counter is not advanced when _tick returns
TickFin_sin_incremento ==
    /\ fase = "robots"
    /\ cola = <<>>
    /\ fase' = "espera"
    /\ UNCHANGED <<grid, robotObj, robots, monstruoObj, monstruos, tick_actual,
                   cola, percepcion, decision, evento, registro, llamadas, traza, azar, replica, entidades, posicion,
                   entidades_activas, estadisticas>>

\* the robot loop is exhausted: tick_actual += 1 and _tick returns
TickFin ==
    /\ fase = "robots"
    /\ cola = <<>>
    /\ tick_actual' = tick_actual + 1
    /\ fase' = "espera"
    /\ UNCHANGED <<grid, robotObj, robots, monstruoObj, monstruos, cola,
                   percepcion, decision, evento, registro, llamadas, traza, azar, replica, entidades, posicion,
                   entidades_activas, estadisticas>>

Next ==
    \/ InicializarRobot
    \/ InicializarMonstruo
    \/ TickInicio
    \/ TickMonstruo
    \/ TickFaseRobots
    \/ TickRobot
    \/ TickFin

Spec == Init /\ [][Next]_vars

\* ------------------------------------------------------------------------
\* Ticks of Visualizador3DManual in a world whose centre cell and its
\* neighbours are Zonas Libres, with one robot in the centre
\* ------------------------------------------------------------------------
Vecinos == {Sumar(Centro, ORIENTACIONES[l]) : l \in DOMAIN ORIENTACIONES} \cap Celdas

\* the world after the registrations: the robot with id 1 in the centre with
\* any orientation, and up to Nmonstruos monsters, with the ids 1, 2, ..., in
\* distinct cells of the centre and its neighbours
InitVecindad ==
    /\ grid = [c \in Celdas |->
                  IF c \in Vecinos \cup {Centro} THEN ZONA_LIBRE ELSE ZONA_VACIA]
    /\ \E o \in DOMAIN ORIENTACIONES :
          robotObj = <<NuevoRobot(1, Centro, o)>>
    /\ robots = <<1>>
    /\ \E n \in 0..Nmonstruos :
          \E ps \in [1..n -> Vecinos \cup {Centro}] :
             /\ \A i, j \in 1..n : i # j => ps[i] # ps[j]
             /\ monstruoObj = [k \in 1..n |-> NuevoMonstruo(k, ps[k])]
             /\ monstruos = [k \in 1..n |-> k]
    /\ tick_actual = 0
    /\ fase = "espera"
    /\ cola = <<>>
    /\ percepcion = NoPercepcion
    /\ decision = NoDecision
    /\ evento = NoEvento
    /\ registro = NoRegistro
    /\ llamadas = 0
    /\ traza = <<>>
    /\ azar = NoAzar
    /\ replica = NoReplica
    /\ entidades = <<>>
    /\ posicion = <<>>
    /\ entidades_activas = {}
    /\ estadisticas = NoEstadisticas

NextVecindad ==
    \/ TickInicio
    \/ TickMonstruo
    \/ TickFaseRobots
    \/ TickRobot
    \/ TickFin

SpecVecindad == InitVecindad /\ [][NextVecindad]_vars

\* ------------------------------------------------------------------------
\* Direct calls of the effectors of a registered robot
\* (AgenteRacionalRobot.ejecutar_accion on the live entorno.monstruos)
\* ------------------------------------------------------------------------
Llamar(r, accion, param) ==
    LET res == ejecutar_accion(Mundo, r, accion, param, monstruos)
    IN /\ Poner(res.w)
       /\ evento' = [agente |-> "robot", ref |-> r, tick |-> tick_actual,
                     accion |-> res.accion, exito |-> res.exito, razon |-> res.razon]
       /\ llamadas' = llamadas + 1
       /\ UNCHANGED <<tick_actual, fase, cola, percepcion, decision, registro,
                      traza, azar, replica, entidades, posicion,
                   entidades_activas, estadisticas>>

LlamarPropulsor ==
    /\ fase = "espera"
    /\ llamadas < MaxLlamadas
    /\ \E k \in 1..Len(robots) : Llamar(robots[k], "PROPULSOR", None)

LlamarReorientador ==
    /\ fase = "espera"
    /\ llamadas < MaxLlamadas
    /\ \E k \in 1..Len(robots), param \in {None, "", "+90", "-90"} \cup DOMAIN ORIENTACIONES :
          Llamar(robots[k], "REORIENTADOR", param)

LlamarVacuumator ==
    /\ fase = "espera"
    /\ llamadas < MaxLlamadas
    /\ \E k \in 1..Len(robots) : Llamar(robots[k], "VACUUMATOR", None)

NextEfectores ==
    \/ InicializarRobot
    \/ InicializarMonstruo
    \/ LlamarPropulsor
    \/ LlamarReorientador
    \/ LlamarVacuumator

SpecEfectores == Init /\ [][NextEfectores]_vars

\* ------------------------------------------------------------------------
\* Successive direct calls of AgenteRacionalRobot._reorientador
\* ------------------------------------------------------------------------
\* a robot registered on the centre cell with any of the six orientations
InitGiros ==
    /\ grid = GenerarEntornoAleatorio([c \in Celdas |-> TRUE])
    /\ \E o \in DOMAIN ORIENTACIONES : robotObj = <<NuevoRobot(1, Centro, o)>>
    /\ robots = <<1>>
    /\ monstruoObj = <<>>
    /\ monstruos = <<>>
    /\ tick_actual = 0
    /\ fase = "giros"
    /\ cola = <<>>
    /\ percepcion = NoPercepcion
    /\ decision = NoDecision
    /\ evento = NoEvento
    /\ registro = NoRegistro
    /\ llamadas = 0
    /\ traza = <<>>
    /\ azar = NoAzar
    /\ replica = NoReplica
    /\ entidades = <<>>
    /\ posicion = <<>>
    /\ entidades_activas = {}
    /\ estadisticas = NoEstadisticas

\* robot._reorientador(sentido); traza keeps the argument and the orientation
\* the robot had before the call
Girar ==
    /\ fase = "giros"
    /\ Len(traza) < MaxGiros
    /\ \E sentido \in {"+90", "-90"} \cup DOMAIN ORIENTACIONES :
          LET res == reorientador(Mundo, 1, sentido)
          IN /\ Poner(res.w)
             /\ evento' = [agente |-> "robot", ref |-> 1, tick |-> tick_actual,
                           accion |-> res.accion, exito |-> res.exito,
                           razon |-> res.razon]
             /\ traza' = Append(traza, [sentido |-> sentido,
                                        antes |-> robotObj[1].orientacion])
    /\ UNCHANGED <<tick_actual, fase, cola, percepcion, decision, registro, llamadas, azar, replica, entidades, posicion,
                   entidades_activas, estadisticas>>

SpecGiros == InitGiros /\ [][Girar]_vars

\* ------------------------------------------------------------------------
\* SimulacionEnergetica.ejecutar
\* ------------------------------------------------------------------------
\* getattr(agente, "activo", defecto): no agent class sets the attribute
Activo(agente, defecto) == defecto

\* the constructor with Nrobots robots, as in the tick driver
EjInicializarRobot ==
    /\ Len(monstruos) = 0
    /\ InicializarRobot

\* the second loop of the constructor, after Nrobots robots or, for a
\* simulation configured without robots, after none
EjInicializarMonstruo ==
    /\ fase = "init"
    /\ Len(robots) \in {0, Nrobots}
    /\ Len(monstruos) < Nmonstruos
    /\ \E x \in Coord, y \in Coord, z \in Coord :
          LET res == registrar_monstruo(Mundo, NuevoMonstruo(Len(monstruos) + 1, <<x, y, z>>))
          IN /\ Poner(res.w)
             /\ fase' = IF Len(res.w.monstruos) = Nmonstruos THEN "espera" ELSE "init"
    /\ UNCHANGED <<tick_actual, cola, percepcion, decision, evento,
                   registro, llamadas, traza, azar, replica, entidades, posicion,
                   entidades_activas, estadisticas>>

\* top of the body of "for t in range(self.ticks)": the list of the monsters
\* that count as active is built
EjecutarInicio ==
    /\ fase = "espera"
    /\ tick_actual < MaxTick
    /\ fase' = "ej_monstruos"
    /\ cola' = SelectSeq(monstruos, LAMBDA m : Activo(monstruoObj[m], TRUE))
    /\ UNCHANGED <<grid, robotObj, robots, monstruoObj, monstruos, tick_actual,
                   percepcion, decision, evento, registro, llamadas, traza, azar, replica, entidades, posicion,
                   entidades_activas, estadisticas>>

\* monstruo.percibir_decidir_actuar(t, self.entorno, self.K_monstruo)
EjecutarMonstruo ==
    /\ fase = "ej_monstruos"
    /\ cola # <<>>
    /\ \E supera \in BOOLEAN, eleccion \in 1..Len(OrdenOrientaciones) :
          LET res == percibir_decidir_actuar_monstruo(Mundo, Head(cola), tick_actual,
                                                      K_monstruo, supera, eleccion)
          IN /\ Poner(res.w)
             /\ evento' = res.evento
    /\ cola' = Tail(cola)
    /\ traza' = Append(traza, [agente |-> "monstruo", ref |-> Head(cola),
                               tick |-> tick_actual])
    /\ UNCHANGED <<tick_actual, fase, percepcion, decision, registro, llamadas, azar, replica, entidades, posicion,
                   entidades_activas, estadisticas>>

\* the list of the robots that count as active is built
EjecutarFaseRobots ==
    /\ fase = "ej_monstruos"
    /\ cola = <<>>
    /\ fase' = "ej_robots"
    /\ cola' = SelectSeq(robots, LAMBDA r : Activo(robotObj[r], TRUE))
    /\ UNCHANGED <<grid, robotObj, robots, monstruoObj, monstruos, tick_actual,
                   percepcion, decision, evento, registro, llamadas, traza, azar, replica, entidades, posicion,
                   entidades_activas, estadisticas>>

\* robot.percibir_decidir_actuar(t, self.entorno): the method requires the
\* arguments robots and monstruos as well, so the call raises TypeError
\* before the cycle starts, and the exception leaves ejecutar
EjecutarRobot ==
    /\ fase = "ej_robots"
    /\ cola # <<>>
    /\ fase' = "TypeError"
    /\ UNCHANGED <<grid, robotObj, robots, monstruoObj, monstruos, tick_actual,
                   cola, percepcion, decision, evento, registro, llamadas, traza, azar, replica, entidades, posicion,
                   entidades_activas, estadisticas>>

\* end of the body: the loop is left when no robot and no monster counts as
\* active, or after the last tick
EjecutarFin ==
    /\ fase = "ej_robots"
    /\ cola = <<>>
    /\ IF /\ ~ \E k \in 1..Len(robots) : Activo(robotObj[robots[k]], FALSE)
          /\ ~ \E k \in 1..Len(monstruos) : Activo(monstruoObj[monstruos[k]], FALSE)
       THEN /\ fase' = "fin"
            /\ tick_actual' = tick_actual
       ELSE /\ tick_actual' = tick_actual + 1
            /\ fase' = IF tick_actual + 1 < MaxTick THEN "espera" ELSE "fin"
    /\ UNCHANGED <<grid, robotObj, robots, monstruoObj, monstruos, cola,
                   percepcion, decision, evento, registro, llamadas, traza, azar, replica, entidades, posicion,
                   entidades_activas, estadisticas>>

NextEjecutar ==
    \/ EjInicializarRobot
    \/ EjInicializarMonstruo
    \/ EjecutarInicio
    \/ EjecutarMonstruo
    \/ EjecutarFaseRobots
    \/ EjecutarRobot
    \/ EjecutarFin

SpecEjecutar == Init /\ [][NextEjecutar]_vars

\* ------------------------------------------------------------------------
\* Direct calls of the registry of EntornoOperacion
\* ------------------------------------------------------------------------
\* positions offered to the registry: the cells of the arena and every
\* neighbour of them, inside or one step outside the cube
Ofrecidas ==
    LET base == Arena \cup {Centro}
    IN base \cup {Sumar(c, ORIENTACIONES[l]) : c \in base, l \in DOMAIN ORIENTACIONES}

\* registrations are offered while fewer than MaxRegistros objects exist
RegistrarRobot ==
    /\ fase = "init"
    /\ Len(robotObj) + Len(monstruoObj) < MaxRegistros
    /\ \E p \in Ofrecidas, o \in {"+X", "-Z"} :
          LET robot == NuevoRobot(Len(robotObj) + 1, p, o)
              res == registrar_robot(Mundo, robot)
          IN /\ Poner(res.w)
             /\ registro' = [llamada |-> "registrar_robot", id |-> robot.id,
                             pos |-> robot.pos, ok |-> res.ok]
    /\ UNCHANGED <<tick_actual, fase, cola, percepcion, decision, evento, llamadas, traza, azar, replica, entidades, posicion,
                   entidades_activas, estadisticas>>

RegistrarMonstruo ==
    /\ fase = "init"
    /\ Len(robotObj) + Len(monstruoObj) < MaxRegistros
    /\ \E p \in Ofrecidas :
          LET monstruo == NuevoMonstruo(Len(monstruoObj) + 1, p)
              res == registrar_monstruo(Mundo, monstruo)
          IN /\ Poner(res.w)
             /\ registro' = [llamada |-> "registrar_monstruo", id |-> monstruo.id,
                             pos |-> monstruo.pos, ok |-> res.ok]
    /\ UNCHANGED <<tick_actual, fase, cola, percepcion, decision, evento, llamadas, traza, azar, replica, entidades, posicion,
                   entidades_activas, estadisticas>>

\* ids offered to the removal calls: the ids handed out so far and one more
EliminarRobot ==
    /\ fase = "init"
    /\ \E id \in 1..(Len(robotObj) + 1) :
          /\ Poner(eliminar_robot(Mundo, id))
          /\ registro' = [llamada |-> "eliminar_robot", id |-> id,
                          pos |-> NoPos, ok |-> TRUE]
    /\ UNCHANGED <<tick_actual, fase, cola, percepcion, decision, evento, llamadas, traza, azar, replica, entidades, posicion,
                   entidades_activas, estadisticas>>

EliminarMonstruo ==
    /\ fase = "init"
    /\ \E id \in 1..(Len(monstruoObj) + 1) :
          /\ Poner(eliminar_monstruo(Mundo, id))
          /\ registro' = [llamada |-> "eliminar_monstruo", id |-> id,
                          pos |-> NoPos, ok |-> TRUE]
    /\ UNCHANGED <<tick_actual, fase, cola, percepcion, decision, evento, llamadas, traza, azar, replica, entidades, posicion,
                   entidades_activas, estadisticas>>

NextRegistro ==
    \/ RegistrarRobot
    \/ RegistrarMonstruo
    \/ EliminarRobot
    \/ EliminarMonstruo

SpecRegistro == Init /\ [][NextRegistro]_vars

\* entorno.obtener_tipo_celda(x, y, z) on coordinates inside the cube and up
\* to Margen steps outside it on every axis
ConsultarCelda ==
    /\ fase = "init"
    /\ \E x \in (0 - Margen)..(N - 1 + Margen),
          y \in (0 - Margen)..(N - 1 + Margen),
          z \in (0 - Margen)..(N - 1 + Margen) :
          registro' = [llamada |-> "obtener_tipo_celda", pos |-> <<x, y, z>>,
                       tipo |-> obtener_tipo_celda(grid, <<x, y, z>>)]
    /\ UNCHANGED <<grid, robotObj, robots, monstruoObj, monstruos, tick_actual,
                   fase, cola, percepcion, decision, evento, llamadas, traza, azar, replica, entidades, posicion,
                   entidades_activas, estadisticas>>

SpecConsulta == Init /\ [][ConsultarCelda]_vars

\* ------------------------------------------------------------------------
\* Two environments built one after the other: EntornoOperacion.__init__
\* with a seed, on the shared generator of the module random
\* ------------------------------------------------------------------------
\* None where a seed is expected
NoSemilla == 0

Semillas == {1, 2}

\* place of cell c in the order of the three nested loops over x, y, z
Idx(c) == c[1] * N * N + c[2] * N + c[3] + 1

\* a stream of 2 * N^3 draws: the draws of block a, then those of block b
Bloques(a, b) ==
    [k \in 1..(2 * N * N * N) |->
        LET j == ((k - 1) % (N * N * N))
            c == <<j \div (N * N), (j \div N) % N, j % N>>
        IN IF k <= N * N * N THEN a[c] ELSE b[c]]

\* the streams the generator yields for each seed, in the bounded family
Flujos ==
    {(1 :> Bloques(a, b)) @@ (2 :> Bloques(b, a)) : a \in Sorteos, b \in Sorteos}

\* fault: the seed is not handed to the generator
Sembrar_omitida(az, seed) ==
    az

\* if seed is not None: random.seed(seed)
Sembrar(az, seed) ==
    IF seed # NoSemilla THEN [az EXCEPT !.semilla = seed, !.pos = 0] ELSE az

\* before the first construction: the generator is in the state some seed
\* leaves, no environment exists
InitSemilla ==
    /\ grid = [c \in Celdas |-> ZONA_LIBRE]
    /\ robotObj = <<>>
    /\ robots = <<>>
    /\ monstruoObj = <<>>
    /\ monstruos = <<>>
    /\ tick_actual = 0
    /\ fase = "semilla"
    /\ cola = <<>>
    /\ percepcion = NoPercepcion
    /\ decision = NoDecision
    /\ evento = NoEvento
    /\ registro = NoRegistro
    /\ llamadas = 0
    /\ traza = <<>>
    /\ \E f \in Flujos, s \in Semillas : azar = [flujo |-> f, semilla |-> s, pos |-> 0]
    /\ replica = NoReplica
    /\ entidades = <<>>
    /\ posicion = <<>>
    /\ entidades_activas = {}
    /\ estadisticas = NoEstadisticas

\* EntornoOperacion(N, Pfree, Psoft, seed): the generator is seeded, the grid
\* is drawn cell by cell, the registries start empty; the environment built
\* before is kept aside
ConstruirEntorno ==
    /\ fase = "semilla"
    /\ replica.construidos < 2
    /\ \E seed \in Semillas \cup {NoSemilla} :
          LET az == Sembrar(azar, seed)
              sorteo == [c \in Celdas |-> az.flujo[az.semilla][az.pos + Idx(c)]]
          IN /\ grid' = GenerarEntornoAleatorio(sorteo)
             /\ azar' = [az EXCEPT !.pos = az.pos + N * N * N]
             /\ replica' = [replica EXCEPT
                               !.construidos = @ + 1,
                               !.semillas = Append(@, seed),
                               !.w = IF replica.construidos = 1 THEN Mundo ELSE @]
    /\ robotObj' = <<>>
    /\ robots' = <<>>
    /\ monstruoObj' = <<>>
    /\ monstruos' = <<>>
    /\ UNCHANGED <<tick_actual, fase, cola, percepcion, decision, evento,
                   registro, llamadas, traza, entidades, posicion,
                   entidades_activas, estadisticas>>

\* the same call of registrar_robot on both environments
RegistrarEnAmbos ==
    /\ fase = "semilla"
    /\ replica.construidos = 2
    /\ Len(replica.aceptados[1]) < MaxRegistros
    /\ \E p \in Arena \cup {Centro} :
          LET robot == NuevoRobot(Len(replica.aceptados[1]) + 1, p, "+X")
              una == registrar_robot(replica.w, robot)
              otra == registrar_robot(Mundo, robot)
          IN /\ Poner(otra.w)
             /\ replica' = [replica EXCEPT
                               !.w = una.w,
                               !.aceptados = <<Append(@[1], una.ok), Append(@[2], otra.ok)>>]
    /\ UNCHANGED <<tick_actual, fase, cola, percepcion, decision, evento,
                   registro, llamadas, traza, azar, entidades, posicion,
                   entidades_activas, estadisticas>>

NextSemilla ==
    \/ ConstruirEntorno
    \/ RegistrarEnAmbos

SpecSemilla == InitSemilla /\ [][NextSemilla]_vars

\* ------------------------------------------------------------------------
\* Construction with any size: EntornoOperacion.__init__ (src/agentes) and
\* Mundo.__init__ (src/andres)
\* ------------------------------------------------------------------------
CeldasDe(n) == (0..(n - 1)) \X (0..(n - 1)) \X (0..(n - 1))

\* a seed is None (here <<>>) or an integer, kept as the pair <<alto, bajo>>
\* of its upper part and its lower 16 bits: seed = alto * 65536 + bajo with
\* 0 <= bajo < 65536. np.random.seed(seed) accepts the integers from 0 to
\* 2**32 - 1 and raises ValueError for any other.
\* EntornoOperacion(N = n, seed = seed): with a seed, random.seed(seed) and
\* np.random.seed(seed) are called first; np.zeros((N, N, N)) rejects a
\* negative size; the cells are drawn (libres: the cells whose draw came out
\* Zona Libre); then grid[centro] is written, which fails when the grid has
\* no such cell
EntornoOperacion_init(n, seed, libres) ==
    IF seed # <<>> /\ ~ (0 <= seed[1] /\ seed[1] < 65536)
    THEN [error |-> "ValueError", grid |-> <<>>]
    ELSE IF n < 0
    THEN [error |-> "ValueError", grid |-> <<>>]
    ELSE LET centro == <<n \div 2, n \div 2, n \div 2>>
             sorteado == [c \in CeldasDe(n) |->
                             IF c \in libres THEN ZONA_LIBRE ELSE ZONA_VACIA]
         IN IF centro \notin DOMAIN sorteado
            THEN [error |-> "IndexError", grid |-> <<>>]
            ELSE [error |-> None, grid |-> [sorteado EXCEPT ![centro] = ZONA_LIBRE]]

\* Mundo(n): the size is tested, then a grid of (n + 2)^3 Zonas Libres is made
Mundo_init(n) ==
    IF n < 1
    THEN [error |-> "ValueError", grid |-> <<>>]
    ELSE [error |-> None, grid |-> [c \in CeldasDe(n + 2) |-> ZONA_LIBRE]]

\* no environment exists yet
InitConstruir ==
    /\ grid = <<>>
    /\ robotObj = <<>>
    /\ robots = <<>>
    /\ monstruoObj = <<>>
    /\ monstruos = <<>>
    /\ tick_actual = 0
    /\ fase = "construir"
    /\ cola = <<>>
    /\ percepcion = NoPercepcion
    /\ decision = NoDecision
    /\ evento = NoEvento
    /\ registro = NoRegistro
    /\ llamadas = 0
    /\ traza = <<>>
    /\ azar = NoAzar
    /\ replica = NoReplica
    /\ entidades = <<>>
    /\ posicion = <<>>
    /\ entidades_activas = {}
    /\ estadisticas = NoEstadisticas

\* the result of a constructor: the environment, or the exception raised
Construido(clase, n, seed, res) ==
    /\ registro' = [llamada |-> "__init__", clase |-> clase, N |-> n,
                    seed |-> seed, error |-> res.error]
    /\ grid' = res.grid
    /\ fase' = IF res.error = None THEN "construido" ELSE "error"
    /\ UNCHANGED <<robotObj, robots, monstruoObj, monstruos, tick_actual, cola,
                   percepcion, decision, evento, llamadas, traza, azar, replica, entidades, posicion,
                   entidades_activas, estadisticas>>

\* EntornoOperacion(N = n, seed = seed) with sizes from Margen below zero up
\* to N, the seeds None, -1, 0, 42, 2**32 - 1 and 2**32, and the draws that
\* leave at most two cells free
ConstruirEntornoOperacion ==
    /\ fase = "construir"
    /\ \E n \in (0 - Margen)..N :
          \E seed \in {<<>>, <<-1, 65535>>, <<0, 0>>, <<0, 42>>,
                        <<65535, 65535>>, <<65536, 0>>} :
             \E libres \in {{}} \cup {{a, b} : a, b \in CeldasDe(n)} :
                Construido("EntornoOperacion", n, seed,
                           EntornoOperacion_init(n, seed, libres))

\* Mundo(n) with the same sizes
ConstruirMundo ==
    /\ fase = "construir"
    /\ \E n \in (0 - Margen)..N : Construido("Mundo", n, <<>>, Mundo_init(n))

NextConstruir ==
    \/ ConstruirEntornoOperacion
    \/ ConstruirMundo

SpecConstruir == InitConstruir /\ [][NextConstruir]_vars

\* ------------------------------------------------------------------------
\* src/andres: Mundo, the registry of entities keyed by position
\* (mu: [n, grid, entidades, posicion]; e: reference of an entity object)
\* ------------------------------------------------------------------------
\* the cells of the interior that generar_mundo draws: range(1, n) on each axis
Sorteadas(n) == (1..(n - 1)) \X (1..(n - 1)) \X (1..(n - 1))

\* vacias: the drawn cells whose draw came out below prob_vacia
generar_mundo(n, vacias) ==
    [c \in CeldasDe(n + 2) |->
        IF \E i \in 1..3 : c[i] = 0 \/ c[i] = n + 1 THEN ZONA_VACIA
        ELSE IF c \in Sorteadas(n) /\ c \in vacias THEN ZONA_VACIA
        ELSE ZONA_LIBRE]

validar_posicion_para_spawn(mu, p) ==
    /\ \A i \in 1..3 : 1 <= p[i] /\ p[i] <= mu.n
    /\ mu.grid[p] # ZONA_VACIA
    /\ p \notin DOMAIN mu.entidades

agregar_entidad(mu, e, p) ==
    IF ~ validar_posicion_para_spawn(mu, p)
    THEN [ok |-> FALSE, mu |-> mu]
    ELSE [ok |-> TRUE,
          mu |-> [mu EXCEPT !.posicion[e] = p,
                            !.entidades = [q \in DOMAIN mu.entidades \cup {p} |->
                                              IF q = p THEN e ELSE mu.entidades[q]]]]

\* eliminada: the entity popped from the dictionary, None when nothing is
eliminar_entidad(mu, e) ==
    LET pos == mu.posicion[e]
    IN IF pos \in DOMAIN mu.entidades
       THEN [ok |-> TRUE, eliminada |-> mu.entidades[pos],
             mu |-> [mu EXCEPT !.entidades = [q \in DOMAIN mu.entidades \ {pos} |->
                                                 mu.entidades[q]]]]
       ELSE [ok |-> FALSE, eliminada |-> 0, mu |-> mu]

\* the entity objects made by the caller: Robot(id), Monstruo(id)
EntidadesMundo == 1..MaxEntidades

\* the positions offered to agregar_entidad: three interior cells, one of the
\* border layer and one outside the array
PosicionesMundo ==
    {<<1, 1, 1>>, <<1, 1, N>>, <<N, N, N>>, <<0, 1, 1>>, <<N + 2, 1, 1>>}

MundoAndres ==
    [n |-> N, grid |-> grid, entidades |-> entidades, posicion |-> posicion]

\* Mundo(N) followed by generar_mundo(), and the entities not yet placed
InitMundo ==
    /\ \E vacias \in {{}, {<<1, 1, 1>>}, Sorteadas(N)} : grid = generar_mundo(N, vacias)
    /\ entidades = <<>>
    /\ posicion = [e \in EntidadesMundo |-> NoPos]
    /\ entidades_activas = {}
    /\ estadisticas = NoEstadisticas
    /\ robotObj = <<>>
    /\ robots = <<>>
    /\ monstruoObj = <<>>
    /\ monstruos = <<>>
    /\ tick_actual = 0
    /\ fase = "mundo"
    /\ cola = <<>>
    /\ percepcion = NoPercepcion
    /\ decision = NoDecision
    /\ evento = NoEvento
    /\ registro = NoRegistro
    /\ llamadas = 0
    /\ traza = <<>>
    /\ azar = NoAzar
    /\ replica = NoReplica

AgregarEntidad ==
    /\ fase = "mundo"
    /\ llamadas < MaxOperaciones
    /\ \E e \in EntidadesMundo, p \in PosicionesMundo :
          LET res == agregar_entidad(MundoAndres, e, p)
          IN /\ entidades' = res.mu.entidades
             /\ posicion' = res.mu.posicion
             /\ registro' = [llamada |-> "agregar_entidad", entidad |-> e,
                             pos |-> p, ok |-> res.ok, eliminada |-> 0]
    /\ llamadas' = llamadas + 1
    /\ UNCHANGED <<grid, robotObj, robots, monstruoObj, monstruos, tick_actual,
                   fase, cola, percepcion, decision, evento, traza, azar, replica,
                   entidades_activas, estadisticas>>

EliminarEntidad ==
    /\ fase = "mundo"
    /\ llamadas < MaxOperaciones
    /\ \E e \in EntidadesMundo :
          LET res == eliminar_entidad(MundoAndres, e)
          IN /\ entidades' = res.mu.entidades
             /\ posicion' = res.mu.posicion
             /\ registro' = [llamada |-> "eliminar_entidad", entidad |-> e,
                             pos |-> posicion[e], ok |-> res.ok,
                             eliminada |-> res.eliminada]
    /\ llamadas' = llamadas + 1
    /\ UNCHANGED <<grid, robotObj, robots, monstruoObj, monstruos, tick_actual,
                   fase, cola, percepcion, decision, evento, traza, azar, replica,
                   entidades_activas, estadisticas>>

NextMundo ==
    \/ AgregarEntidad
    \/ EliminarEntidad

SpecMundo == InitMundo /\ [][NextMundo]_vars

\* ------------------------------------------------------------------------
\* src/john: Entorno3D, AgenteMonstruo and Simulation._ejecutar_accion_robot
\* (w: the world record; r, m: references of a robot and of a monster)
\* ------------------------------------------------------------------------
\* the environment of src/john as one record
MundoE3 ==
    [grid |-> grid, robotObj |-> robotObj, robots |-> robots,
     monstruoObj |-> monstruoObj, monstruos |-> monstruos,
     entidades_activas |-> entidades_activas, estadisticas |-> estadisticas]

PonerE3(w) ==
    /\ grid' = w.grid
    /\ robotObj' = w.robotObj
    /\ robots' = w.robots
    /\ monstruoObj' = w.monstruoObj
    /\ monstruos' = w.monstruos
    /\ entidades_activas' = w.entidades_activas
    /\ estadisticas' = w.estadisticas

es_posicion_valida(p) == \A i \in 1..3 : 0 <= p[i] /\ p[i] < N

es_celda_libre(w, p) == w.grid[p] = ZONA_LIBRE

\* the entries of entidades_activas, f"robot_{id}" and f"monster_{id}", are
\* kept as pairs of the prefix and the id
Entorno3D_registrar_robot(w, robot) ==
    IF ~ es_posicion_valida(robot.pos) THEN [ok |-> FALSE, w |-> w]
    ELSE IF ~ es_celda_libre(w, robot.pos) THEN [ok |-> FALSE, w |-> w]
    ELSE [ok |-> TRUE,
          w |-> [w EXCEPT !.robotObj = Append(w.robotObj, robot),
                          !.robots = Append(w.robots, Len(w.robotObj) + 1),
                          !.entidades_activas = @ \cup {<<"robot", robot.id>>}]]

Entorno3D_registrar_monstruo(w, monstruo) ==
    IF ~ es_posicion_valida(monstruo.pos) THEN [ok |-> FALSE, w |-> w]
    ELSE IF ~ es_celda_libre(w, monstruo.pos) THEN [ok |-> FALSE, w |-> w]
    ELSE [ok |-> TRUE,
          w |-> [w EXCEPT !.monstruoObj = Append(w.monstruoObj, monstruo),
                          !.monstruos = Append(w.monstruos, Len(w.monstruoObj) + 1),
                          !.entidades_activas = @ \cup {<<"monster", monstruo.id>>}]]

\* validar_movimiento_robot: the answer and the world with the statistics
\* counted
validar_movimiento_robot(w, r, d) ==
    LET nueva == Sumar(w.robotObj[r].pos, d)
        invalido == [w EXCEPT !.estadisticas.movimientos_invalidos = @ + 1]
    IN IF ~ es_posicion_valida(nueva)
       THEN [valido |-> FALSE, razon |-> "fuera_limites", nueva_posicion |-> NoPos,
             w |-> invalido]
       ELSE IF w.grid[nueva] = ZONA_VACIA
       THEN [valido |-> FALSE, razon |-> "zona_vacia", nueva_posicion |-> NoPos,
             w |-> [invalido EXCEPT !.estadisticas.choques_registrados = @ + 1]]
       ELSE IF \E k \in 1..Len(w.robots) :
                  /\ w.robotObj[w.robots[k]].id # w.robotObj[r].id
                  /\ w.robotObj[w.robots[k]].pos = nueva
       THEN [valido |-> FALSE, razon |-> "robot_en_celda", nueva_posicion |-> NoPos,
             w |-> invalido]
       ELSE [valido |-> TRUE, razon |-> "movimiento_valido", nueva_posicion |-> nueva,
             w |-> [w EXCEPT !.estadisticas.movimientos_validos = @ + 1]]

\* the first monster of the list that stands at p; 0 stands for None
obtener_monstruo_en_posicion(w, p) ==
    LET en == {k \in 1..Len(w.monstruos) : w.monstruoObj[w.monstruos[k]].pos = p}
    IN IF en = {} THEN 0
       ELSE w.monstruos[CHOOSE k \in en : \A j \in en : k <= j]

ejecutar_destruccion_conjunta(w, r, m) ==
    LET robot == w.robotObj[r]
        monstruo == w.monstruoObj[m]
        RobotQueda(q) == w.robotObj[q].id # robot.id
        MonstruoQueda(q) == w.monstruoObj[q].id # monstruo.id
    IN [w EXCEPT !.grid[robot.pos] = ZONA_VACIA,
                 !.robots = SelectSeq(w.robots, RobotQueda),
                 !.monstruos = SelectSeq(w.monstruos, MonstruoQueda),
                 !.entidades_activas = @ \ {<<"robot", robot.id>>,
                                            <<"monster", monstruo.id>>},
                 !.estadisticas.destrucciones_conjuntas = @ + 1]

ejecutar_movimiento_robot(w, r, nueva_posicion) ==
    LET movido == [w EXCEPT !.robotObj[r].pos = nueva_posicion]
        monstruo_en_celda == obtener_monstruo_en_posicion(movido, nueva_posicion)
    IN IF monstruo_en_celda # 0
       THEN [w |-> ejecutar_destruccion_conjunta(movido, r, monstruo_en_celda),
             evento |-> "destruccion_conjunta", destruccion |-> TRUE]
       ELSE [w |-> movido, evento |-> "movimiento_exitoso", destruccion |-> FALSE]

\* Simulation._ejecutar_accion_robot(robot, decision) of simulationconexion.py;
\* decision is [accion, direccion]
ejecutar_accion_robot(w, r, dec) ==
    IF dec.accion = "move"
    THEN LET validacion == validar_movimiento_robot(w, r, dec.direccion)
         IN IF validacion.valido
            THEN LET resultado == ejecutar_movimiento_robot(
                                      validacion.w, r, validacion.nueva_posicion)
                 IN [w |-> resultado.w,
                     estado |-> IF ~ resultado.destruccion THEN "move_ok"
                                ELSE "destroyed_both",
                     celda |-> validacion.nueva_posicion]
            ELSE [w |-> validacion.w, estado |-> "collision_logged", celda |-> NoPos]
    ELSE IF dec.accion = "rotate"
    THEN [w |-> w, estado |-> "rotate_ok", celda |-> NoPos]
    ELSE IF dec.accion = "vacuum"
    THEN LET monstruo == obtener_monstruo_en_posicion(w, w.robotObj[r].pos)
         IN IF monstruo # 0
            THEN [w |-> ejecutar_destruccion_conjunta(w, r, monstruo),
                  estado |-> "destroyed_both", celda |-> w.robotObj[r].pos]
            ELSE [w |-> w, estado |-> "vacuum_fail", celda |-> NoPos]
    ELSE [w |-> w, estado |-> "unknown_action", celda |-> NoPos]

\* AgenteMonstruo._obtener_movimientos_validos(entorno): the displacements of
\* _DIRECCIONES that _es_movimiento_valido accepts: the cell is inside the
\* grid and its value is not 1
AgenteMonstruo_obtener_movimientos_validos(self, g) ==
    {d \in {<<1, 0, 0>>, <<-1, 0, 0>>, <<0, 1, 0>>, <<0, -1, 0>>,
            <<0, 0, 1>>, <<0, 0, -1>>} :
        LET p == Sumar(self.pos, d)
        IN IF ~ (\A i \in 1..3 : 0 <= p[i] /\ p[i] < N) THEN FALSE
           ELSE g[p] # 1}

\* AgenteMonstruo.decide_action(entorno, tick_actual, K): se_mueve is the
\* outcome of the draw random.random() <= p_move and d the displacement
\* random.choice returns
AgenteMonstruo_decide_action(self, g, t, K, se_mueve, d) ==
    IF t % K # 0 THEN [accion |-> "idle", nueva_pos |-> NoPos, self |-> self]
    ELSE IF ~ se_mueve THEN [accion |-> "idle", nueva_pos |-> NoPos, self |-> self]
    ELSE IF AgenteMonstruo_obtener_movimientos_validos(self, g) = {}
    THEN [accion |-> "idle", nueva_pos |-> NoPos, self |-> self]
    ELSE [accion |-> "move", nueva_pos |-> Sumar(self.pos, d),
          self |-> [self EXCEPT !.acciones_realizadas = @ + 1]]

\* AgenteMonstruo.decide_and_act(t, entorno, robots, monstruos, K); hecho is
\* the monster after ejecutar_accion(accion, nueva_pos)
AgenteMonstruo_decide_and_act(self, g, t, K, se_mueve, d) ==
    LET dec == AgenteMonstruo_decide_action(self, g, t, K, se_mueve, d)
        hecho == IF dec.accion = "move" /\ dec.nueva_pos # NoPos
                 THEN [dec.self EXCEPT !.pos = dec.nueva_pos]
                 ELSE dec.self
    IN [self |-> hecho,
        event |-> [agent_id |-> self.id, t |-> t, action |-> dec.accion,
                   new_pos |-> hecho.pos, moved |-> dec.accion = "move"]]

\* Entorno3D(N) with no agents: the cells whose draw came out Zona Libre are
\* some of the centre and the cells of Arena
InitEntorno3D ==
    /\ \E L \in {S \in SUBSET (Arena \cup {Centro}) : Cardinality(S) <= MaxLibres} :
          grid = [c \in Celdas |-> IF c \in L THEN ZONA_LIBRE ELSE ZONA_VACIA]
    /\ robotObj = <<>>
    /\ robots = <<>>
    /\ monstruoObj = <<>>
    /\ monstruos = <<>>
    /\ tick_actual = 0
    /\ fase = "entorno3d"
    /\ cola = <<>>
    /\ percepcion = NoPercepcion
    /\ decision = NoDecision
    /\ evento = NoEvento
    /\ registro = NoRegistro
    /\ llamadas = 0
    /\ traza = <<>>
    /\ azar = NoAzar
    /\ replica = NoReplica
    /\ entidades = <<>>
    /\ posicion = <<>>
    /\ entidades_activas = {}
    /\ estadisticas = NoEstadisticas

\* registrar_robot for a new robot, with the next id, at the centre, a cell of
\* Arena, a corner (Zona Vacía here) or a position outside the grid
E3RegistrarRobot ==
    /\ fase = "entorno3d"
    /\ Len(robotObj) < Nrobots
    /\ \E p \in Arena \cup {Centro, <<0, 0, 0>>, <<N, 0, 0>>} :
          LET res == Entorno3D_registrar_robot(
                        MundoE3, [id |-> Len(robotObj) + 1, pos |-> p])
          IN /\ PonerE3(res.w)
             /\ registro' = [llamada |-> "registrar_robot", pos |-> p,
                             ok |-> res.ok, estado |-> None]
    /\ UNCHANGED <<tick_actual, fase, cola, percepcion, decision, evento,
                   llamadas, traza, azar, replica, entidades, posicion>>

\* registrar_monstruo for a new monster, with the next id, at one of the same
\* positions
E3RegistrarMonstruo ==
    /\ fase = "entorno3d"
    /\ Len(monstruoObj) < Nmonstruos
    /\ \E p \in Arena \cup {Centro, <<0, 0, 0>>, <<N, 0, 0>>} :
          LET res == Entorno3D_registrar_monstruo(
                        MundoE3, [id |-> Len(monstruoObj) + 1, pos |-> p,
                                  acciones_realizadas |-> 0])
          IN /\ PonerE3(res.w)
             /\ registro' = [llamada |-> "registrar_monstruo", pos |-> p,
                             ok |-> res.ok, estado |-> None]
    /\ UNCHANGED <<tick_actual, fase, cola, percepcion, decision, evento,
                   llamadas, traza, azar, replica, entidades, posicion>>

\* monstruo.decide_and_act(t, entorno, robots, monstruos, K) for a registered
\* monster, at a tick t and with the draws of random
E3MonstruoDecideAndAct ==
    /\ fase = "entorno3d"
    /\ \E k \in 1..Len(monstruos), t \in 0..(MaxTick - 1), se_mueve \in BOOLEAN :
          LET m == monstruos[k]
              validos == AgenteMonstruo_obtener_movimientos_validos(monstruoObj[m], grid)
          IN \E d \in IF validos = {} THEN {<<0, 0, 0>>} ELSE validos :
                LET res == AgenteMonstruo_decide_and_act(monstruoObj[m], grid, t,
                               K_monstruo, se_mueve, d)
                IN /\ monstruoObj[m].acciones_realizadas < MaxLlamadas
                   /\ monstruoObj' = [monstruoObj EXCEPT ![m] = res.self]
                   /\ registro' = [llamada |-> "monstruo.decide_and_act",
                                   pos |-> res.event.new_pos, ok |-> res.event.moved,
                                   estado |-> res.event.action]
    /\ UNCHANGED <<grid, robotObj, robots, monstruos, tick_actual, fase, cola,
                   percepcion, decision, evento, llamadas, traza, azar, replica,
                   entidades, posicion, entidades_activas, estadisticas>>

\* _ejecutar_accion_robot(robot, decision) for a robot that is in
\* entidades_activas, as ejecutar_ciclo_completo asks
E3EjecutarAccionRobot ==
    /\ fase = "entorno3d"
    /\ estadisticas.movimientos_validos + estadisticas.movimientos_invalidos
          < MaxTick
    /\ \E r \in 1..Len(robotObj),
          dec \in {[accion |-> "move", direccion |-> ORIENTACIONES[l]] :
                      l \in DOMAIN ORIENTACIONES}
                  \cup {[accion |-> a, direccion |-> <<0, 0, 0>>] :
                           a \in {"rotate", "vacuum", "wait"}} :
          LET res == ejecutar_accion_robot(MundoE3, r, dec)
          IN /\ <<"robot", robotObj[r].id>> \in entidades_activas
             /\ PonerE3(res.w)
             /\ registro' = [llamada |-> "_ejecutar_accion_robot",
                             pos |-> res.celda, ok |-> TRUE,
                             estado |-> res.estado]
    /\ UNCHANGED <<tick_actual, fase, cola, percepcion, decision, evento,
                   llamadas, traza, azar, replica, entidades, posicion>>

NextEntorno3D ==
    \/ E3RegistrarRobot
    \/ E3RegistrarMonstruo
    \/ E3MonstruoDecideAndAct
    \/ E3EjecutarAccionRobot

SpecEntorno3D == InitEntorno3D /\ [][NextEntorno3D]_vars

\* ---------------------------------------------------------------------------
\* src/jhunior/agent_robot.py: the robot with five sensors and three effectors
\* ---------------------------------------------------------------------------

\* _ORIENT_VECT: the forward vector of each orientation label
ORIENT_VECT ==
    ("+X" :> <<1, 0, 0>>) @@ ("-X" :> <<-1, 0, 0>>) @@
    ("+Y" :> <<0, 1, 0>>) @@ ("-Y" :> <<0, -1, 0>>) @@
    ("+Z" :> <<0, 0, 1>>) @@ ("-Z" :> <<0, 0, -1>>)

\* _ROTATE_RIGHT: the table of the +90 turn; +Z and -Z map to themselves
ROTATE_RIGHT ==
    ("+X" :> "+Y") @@ ("+Y" :> "-X") @@ ("-X" :> "-Y") @@ ("-Y" :> "+X") @@
    ("+Z" :> "+Z") @@ ("-Z" :> "-Z")

\* _ROTATE_LEFT = {v: k for k, v in _ROTATE_RIGHT.items()}: the table read
\* backwards (no two keys of _ROTATE_RIGHT share a value)
ROTATE_LEFT ==
    [v \in {ROTATE_RIGHT[k] : k \in DOMAIN ROTATE_RIGHT} |->
        CHOOSE k \in DOMAIN ROTATE_RIGHT : ROTATE_RIGHT[k] = v]

\* dict.get(k, default)
dict_get(d, k, default) == IF k \in DOMAIN d THEN d[k] ELSE default

\* Entorno3D.get_cell_type of src/core/environment.py: outside the bounds the
\* answer is 1 (Zona Vacía), inside it is the grid's value
get_cell_type(g, p) ==
    IF ~(\A i \in 1..3 : 0 <= p[i] /\ p[i] < N) THEN 1 ELSE g[p]

\* AgenteRobot(id, x, y, z, orientation) right after __init__; the keys of
\* mapping_table are (energometro, roboscanner, monstroscopio, vacuscopio)
AgenteRobot_init(id, p, orientation) ==
    [id |-> id, pos |-> p, orientation |-> orientation,
     history |-> <<>>, known_walls |-> {}, rules_used |-> {},
     mapping_table |->
        (<<TRUE, FALSE, FALSE, FALSE>> :> "VACUUMATOR") @@
        (<<FALSE, TRUE, FALSE, FALSE>> :> "REORIENTADOR") @@
        (<<FALSE, FALSE, TRUE, FALSE>> :> "PROPULSOR")]

\* perceive(entorno, robots, monstruos): rs and ms are the lists of robot and
\* monster objects
AgenteRobot_perceive(self, g, rs, ms) ==
    LET d == ORIENT_VECT[self.orientation]
        front == Sumar(self.pos, d)
        behind == <<-d[1], -d[2], -d[3]>>
        adj_dirs == {<<1, 0, 0>>, <<-1, 0, 0>>, <<0, 1, 0>>, <<0, -1, 0>>,
                     <<0, 0, 1>>, <<0, 0, -1>>}
        check_dirs == adj_dirs \ {behind}
    IN  [giroscopio |-> self.orientation,
         monstroscopio |-> \E dd \in check_dirs : \E j \in 1..Len(ms) :
                               ms[j].pos = Sumar(self.pos, dd),
         vacuscopio |-> (get_cell_type(g, front) = 1),
         energometro |-> \E j \in 1..Len(ms) : ms[j].pos = self.pos,
         roboscanner |-> \E j \in 1..Len(rs) :
                             rs[j].pos = front /\ rs[j].id # self.id,
         front_cell |-> front]

\* decide_action(percepcion): the hierarchy P0..P4; regla is the number added
\* to rules_used
AgenteRobot_decide_action(self, p) ==
    IF p.energometro
    THEN [accion |-> "VACUUMATOR", param |-> None, regla |-> 0]
    ELSE IF p.front_cell \in self.known_walls \/ p.vacuscopio
    THEN [accion |-> "REORIENTADOR", param |-> "+90", regla |-> 1]
    ELSE IF p.roboscanner
    THEN [accion |-> "REORIENTADOR", param |-> "+90", regla |-> 2]
    ELSE IF p.monstroscopio
    THEN [accion |-> "PROPULSOR", param |-> None, regla |-> 3]
    ELSE [accion |-> dict_get(self.mapping_table,
                              <<p.energometro, p.roboscanner,
                                p.monstroscopio, p.vacuscopio>>,
                              "PROPULSOR"),
          param |-> None, regla |-> 4]

\* update_memory(t, percepcion, accion)
AgenteRobot_update_memory(self, t, p, accion) ==
    [self EXCEPT !.history = Append(@, <<t, p, accion>>),
                 !.known_walls = IF p.vacuscopio THEN @ \cup {p.front_cell}
                                 ELSE @]

\* _propulsor(entorno, robots, monstruos)
AgenteRobot_propulsor(self, g) ==
    LET n == Sumar(self.pos, ORIENT_VECT[self.orientation])
    IN  IF get_cell_type(g, n) = 0
        THEN [self |-> [self EXCEPT !.pos = n], grid |-> g,
              res |-> [moved |-> TRUE, collision |-> FALSE]]
        ELSE [self |-> [self EXCEPT !.known_walls = @ \cup {n}], grid |-> g,
              res |-> [moved |-> FALSE, collision |-> TRUE, wall_coord |-> n]]

\* _reorientador(direction)
AgenteRobot_reorientador(self, g, direction) ==
    LET nueva == IF direction = "+90"
                 THEN dict_get(ROTATE_RIGHT, self.orientation, self.orientation)
                 ELSE dict_get(ROTATE_LEFT, self.orientation, self.orientation)
    IN  [self |-> [self EXCEPT !.orientation = nueva], grid |-> g,
         res |-> [rotated |-> TRUE, new_orientation |-> nueva]]

\* _vacuumator(entorno, monstruos): the robot's cell becomes Zona Vacía; the
\* lists of robots and monsters are left to the caller
AgenteRobot_vacuumator(self, g, ms) ==
    [self |-> self, grid |-> [g EXCEPT ![self.pos] = 1],
     res |-> [killed_monsters |-> {j \in 1..Len(ms) : ms[j].pos = self.pos},
              robot_destroyed |-> TRUE, cell |-> self.pos]]

\* learn_from_event(event, reward): event is [percepcion_key, action], with
\* <<>> and None for a key the dict does not hold. The key comes from the event
\* or, failing that, from the last entry of history; with reward > 0 the
\* table takes the event's action for the key, or keeps the entry it has
\* (the default 'PROPULSOR' of the defaultdict when it has none)
AgenteRobot_learn_from_event(self, event, reward) ==
    IF event.percepcion_key = <<>> /\ self.history = <<>> THEN self
    ELSE LET key == IF event.percepcion_key = <<>>
                    THEN LET p == self.history[Len(self.history)][2]
                         IN <<p.energometro, p.roboscanner, p.monstroscopio,
                              p.vacuscopio>>
                    ELSE event.percepcion_key
             actual == dict_get(self.mapping_table, key, "PROPULSOR")
             nueva == IF event.action # None THEN event.action ELSE actual
         IN IF reward > 0
            THEN [self EXCEPT !.mapping_table =
                     [k \in DOMAIN self.mapping_table \cup {key} |->
                         IF k = key THEN nueva ELSE self.mapping_table[k]]]
            ELSE self

\* decide_and_act(t, entorno, robots, monstruos) of robot rs[i]
AgenteRobot_decide_and_act(i, t, g, rs, ms) ==
    LET p == AgenteRobot_perceive(rs[i], g, rs, ms)
        dec == AgenteRobot_decide_action(rs[i], p)
        conRegla == [rs[i] EXCEPT !.rules_used = @ \cup {dec.regla}]
        recordado == AgenteRobot_update_memory(conRegla, t, p, dec.accion)
        hecho == CASE dec.accion = "PROPULSOR" -> AgenteRobot_propulsor(recordado, g)
                   [] dec.accion = "REORIENTADOR" ->
                          AgenteRobot_reorientador(recordado, g,
                              IF dec.param = None \/ dec.param = "" THEN "+90" ELSE dec.param)
                   [] dec.accion = "VACUUMATOR" -> AgenteRobot_vacuumator(recordado, g, ms)
                   [] OTHER -> [self |-> recordado, grid |-> g, res |-> [noop |-> TRUE]]
    IN  [self |-> hecho.self, grid |-> hecho.grid,
         event |-> [agent_id |-> rs[i].id, t |-> t, action |-> dec.accion,
                    param |-> dec.param, res |-> hecho.res]]

\* Simulation(N, Pfree, Nrobot, Nmonstruos, K, seed) of src/core/simulation.py
\* with Nrobot = Nrobots and Nmonstruos zero or one: every agent starts on a cell
\* get_random_free_cell drew among the free ones, every robot with an
\* orientation random.choice drew among the six labels
InitJhunior ==
    /\ \E L \in {S \in SUBSET (Arena \cup {Centro}) :
                    S # {} /\ Cardinality(S) <= MaxLibres} :
          /\ grid = [c \in Celdas |-> IF c \in L THEN ZONA_LIBRE ELSE ZONA_VACIA]
          /\ \E ps \in [1..Nrobots -> L] : \E os \in [1..Nrobots -> DOMAIN ORIENT_VECT] :
                robotObj = [i \in 1..Nrobots |-> AgenteRobot_init(i - 1, ps[i], os[i])]
          /\ \/ monstruoObj = <<>>
             \/ \E pm \in L : monstruoObj = <<[id |-> 0, pos |-> pm]>>
    /\ robots = [i \in 1..Nrobots |-> i]
    /\ monstruos = [j \in 1..Len(monstruoObj) |-> j]
    /\ tick_actual = 0
    /\ fase = "jhunior"
    /\ cola = <<>>
    /\ percepcion = NoPercepcion
    /\ decision = NoDecision
    /\ evento = NoEvento
    /\ registro = NoRegistro
    /\ llamadas = 0
    /\ traza = <<>>
    /\ azar = NoAzar
    /\ replica = NoReplica
    /\ entidades = <<>>
    /\ posicion = <<>>
    /\ entidades_activas = {}
    /\ estadisticas = NoEstadisticas

\* one call robot.decide_and_act(t, entorno, robots, monstruos), t counting
\* the calls; registro keeps the event and the orientation the robot had
\* before the call
JhuniorDecideAndAct ==
    /\ fase = "jhunior"
    /\ tick_actual < MaxTick
    /\ \E i \in 1..Len(robots) :
          LET r == AgenteRobot_decide_and_act(robots[i], tick_actual, grid, robotObj, monstruoObj)
          IN  /\ grid' = r.grid
              /\ robotObj' = [robotObj EXCEPT ![robots[i]] = r.self]
              /\ registro' = [llamada |-> "decide_and_act", robot |-> robots[i],
                              antes |-> robotObj[robots[i]].orientation,
                              event |-> r.event]
    /\ tick_actual' = tick_actual + 1
    /\ UNCHANGED <<robots, monstruoObj, monstruos, llamadas, fase, cola,
                   percepcion, decision, evento, traza, azar, replica,
                   entidades, posicion,
                   entidades_activas, estadisticas>>

\* one direct call robot._reorientador(direction) with either turn parameter
JhuniorReorientar ==
    /\ fase = "jhunior"
    /\ llamadas < MaxLlamadas
    /\ \E i \in 1..Len(robots) : \E direction \in {"+90", "-90"} :
          LET r == AgenteRobot_reorientador(robotObj[robots[i]], grid, direction)
          IN  /\ robotObj' = [robotObj EXCEPT ![robots[i]] = r.self]
              /\ registro' = [llamada |-> "_reorientador", robot |-> robots[i],
                              antes |-> robotObj[robots[i]].orientation,
                              event |-> [agent_id |-> robotObj[robots[i]].id,
                                         t |-> tick_actual, action |-> "REORIENTADOR",
                                         param |-> direction, res |-> r.res]]
    /\ llamadas' = llamadas + 1
    /\ UNCHANGED <<grid, robots, monstruoObj, monstruos, tick_actual, fase, cola,
                   percepcion, decision, evento, traza, azar, replica,
                   entidades, posicion,
                   entidades_activas, estadisticas>>

\* one call robot.learn_from_event(event, reward)
JhuniorLearnFromEvent ==
    /\ fase = "jhunior"
    /\ llamadas < MaxLlamadas
    /\ \E i \in 1..Len(robots), reward \in {0, 1},
          event \in [percepcion_key : {<<>>, <<FALSE, FALSE, FALSE, FALSE>>},
                     action : {None, "PROPULSOR", "REORIENTADOR", "VACUUMATOR",
                               "ASPIRAR"}] :
          /\ robotObj' = [robotObj EXCEPT ![robots[i]] =
                              AgenteRobot_learn_from_event(@, event, reward)]
          /\ registro' = [llamada |-> "learn_from_event", robot |-> robots[i],
                          antes |-> robotObj[robots[i]].orientation,
                          event |-> [action |-> "learn_from_event"]]
    /\ llamadas' = llamadas + 1
    /\ UNCHANGED <<grid, robots, monstruoObj, monstruos, tick_actual, fase, cola,
                   percepcion, decision, evento, traza, azar, replica,
                   entidades, posicion, entidades_activas, estadisticas>>

NextJhunior ==
    \/ JhuniorDecideAndAct
    \/ JhuniorReorientar
    \/ JhuniorLearnFromEvent

SpecJhunior == InitJhunior /\ [][NextJhunior]_vars

\* ------------------------------------------------------------------------
\* Loop detection over the history of a robot (section 4.4 of the
\* specification; the repository's sources do not contain it)
\* ------------------------------------------------------------------------
\* the (percept, action) pair of record k of history h
Par(h, k) == <<h[k].p, h[k].a>>

\* number of consecutive windows of length L at the end of h that equal the
\* most recent one, the most recent one included; j windows are known equal
RECURSIVE Contar(_, _, _)
Contar(h, L, j) ==
    IF /\ (j + 1) * L <= Len(h)
       /\ \A i \in 1..L : Par(h, Len(h) - L + i) = Par(h, Len(h) - (j + 1) * L + i)
    THEN Contar(h, L, j + 1)
    ELSE j

\* fault: the windows are counted from zero and every length is tried
detectar_bucle_umbral_bajo(h, longitud_minima, repeticiones_minimas) ==
    LET candidatas == {L \in longitud_minima..Len(h) :
                          Contar(h, L, 1) >= repeticiones_minimas - 1}
    IN IF candidatas = {}
       THEN [detectado |-> FALSE, longitud |-> 0, repeticiones |-> 0]
       ELSE LET L == CHOOSE c \in candidatas : \A d \in candidatas : c <= d
            IN [detectado |-> TRUE, longitud |-> L, repeticiones |-> Contar(h, L, 1)]

\* the shortest pattern length, from the minimum up to
\* history_length / minimum_repetitions, whose repeats reach the threshold
detectar_bucle(h, longitud_minima, repeticiones_minimas) ==
    LET candidatas == {L \in longitud_minima..(Len(h) \div repeticiones_minimas) :
                          Contar(h, L, 1) >= repeticiones_minimas}
    IN IF candidatas = {}
       THEN [detectado |-> FALSE, longitud |-> 0, repeticiones |-> 0]
       ELSE LET L == CHOOSE c \in candidatas : \A d \in candidatas : c <= d
            IN [detectado |-> TRUE, longitud |-> L, repeticiones |-> Contar(h, L, 1)]

\* two records a cycle can append: an advance, and a turn after a collision
Apuntes ==
    LET p == [ori |-> "+X", E |-> FALSE, R |-> FALSE, M |-> TRUE, V |-> FALSE,
              pos_prev |-> Centro]
    IN {[p |-> p, a |-> "PROPULSOR"],
        [p |-> [p EXCEPT !.V = TRUE], a |-> "REORIENTADOR"]}

\* the histories of at most MaxHistorial records, one per tick
Historiales ==
    UNION {{[k \in 1..n |-> [t |-> k - 1, p |-> f[k].p, a |-> f[k].a]] :
                f \in [1..n -> Apuntes]} : n \in 0..MaxHistorial}

\* a robot registered on the centre cell holding a history
InitBucle ==
    /\ grid = GenerarEntornoAleatorio([c \in Celdas |-> TRUE])
    /\ \E h \in Historiales :
          robotObj = <<[NuevoRobot(1, Centro, "+X") EXCEPT !.historial = h]>>
    /\ robots = <<1>>
    /\ monstruoObj = <<>>
    /\ monstruos = <<>>
    /\ tick_actual = 0
    /\ fase = "bucle"
    /\ cola = <<>>
    /\ percepcion = NoPercepcion
    /\ decision = NoDecision
    /\ evento = NoEvento
    /\ registro = NoRegistro
    /\ llamadas = 0
    /\ traza = <<>>
    /\ azar = NoAzar
    /\ replica = NoReplica
    /\ entidades = <<>>
    /\ posicion = <<>>
    /\ entidades_activas = {}
    /\ estadisticas = NoEstadisticas

\* loop detection on the robot's history with a minimum pattern length and a
\* threshold of repetitions
DetectarBucle ==
    /\ fase = "bucle"
    /\ \E longitud_minima \in 1..2, repeticiones_minimas \in 2..3 :
          LET res == detectar_bucle(robotObj[1].historial, longitud_minima,
                                    repeticiones_minimas)
          IN registro' = [llamada |-> "detectar_bucle",
                          longitud_minima |-> longitud_minima,
                          repeticiones_minimas |-> repeticiones_minimas,
                          detectado |-> res.detectado,
                          longitud |-> res.longitud,
                          repeticiones |-> res.repeticiones]
    /\ UNCHANGED <<grid, robotObj, robots, monstruoObj, monstruos, tick_actual,
                   fase, cola, percepcion, decision, evento, llamadas, traza, azar, replica, entidades, posicion,
                   entidades_activas, estadisticas>>

SpecBucle == InitBucle /\ [][DetectarBucle]_vars

\* ------------------------------------------------------------------------
\* AgenteRacionalRobot.decidir_accion on every percept
\* ------------------------------------------------------------------------
\* the readings detectar_monstruos can return for a robot facing o
Monstroscopios(o) ==
    {<<FALSE, None, None>>, <<TRUE, "al_frente", o>>} \cup
    {<<TRUE, "al_lado", l>> : l \in {e \in DOMAIN ORIENTACIONES :
        ORIENTACIONES[e] # ORIENTACIONES[o] /\ ORIENTACIONES[e] # Negar(ORIENTACIONES[o])}}

Percepciones ==
    UNION {[giroscopio : {o}, energometro : BOOLEAN, roboscanner : BOOLEAN,
            vacuscopio : BOOLEAN, monstroscopio : Monstroscopios(o),
            posicion_anterior : {Centro}] : o \in DOMAIN ORIENTACIONES}

\* a robot registered on the centre cell holding a percept
InitDecidir ==
    /\ grid = GenerarEntornoAleatorio([c \in Celdas |-> TRUE])
    /\ percepcion \in Percepciones
    /\ robotObj = <<[NuevoRobot(1, Centro, percepcion.giroscopio)
                        EXCEPT !.vacuscopio_activado = percepcion.vacuscopio]>>
    /\ robots = <<1>>
    /\ monstruoObj = <<>>
    /\ monstruos = <<>>
    /\ tick_actual = 0
    /\ fase = "decidir"
    /\ cola = <<>>
    /\ decision = NoDecision
    /\ evento = NoEvento
    /\ registro = NoRegistro
    /\ llamadas = 0
    /\ traza = <<>>
    /\ azar = NoAzar
    /\ replica = NoReplica
    /\ entidades = <<>>
    /\ posicion = <<>>
    /\ entidades_activas = {}
    /\ estadisticas = NoEstadisticas

\* robot.decidir_accion(percepcion): returns the decision, resets the flag
Decidir ==
    /\ fase = "decidir"
    /\ decision' = decidir_accion(percepcion)
    /\ robotObj' = [robotObj EXCEPT ![1].vacuscopio_activado = FALSE]
    /\ fase' = "decidido"
    /\ UNCHANGED <<grid, robots, monstruoObj, monstruos, tick_actual, cola,
                   percepcion, evento, registro, llamadas, traza, azar, replica, entidades, posicion,
                   entidades_activas, estadisticas>>

SpecDecidir == InitDecidir /\ [][Decidir]_vars

\* ------------------------------------------------------------------------
\* Properties
\* ------------------------------------------------------------------------
RobotsRegistrados == {robots[k] : k \in 1..Len(robots)}
MonstruosRegistrados == {monstruos[k] : k \in 1..Len(monstruos)}

UltimaAccion(r) ==
    IF Len(robotObj[r].historial) = 0 THEN None
    ELSE robotObj[r].historial[Len(robotObj[r].historial)].a

\* C1: no two registered robots occupy the same cell, in every state reached
\* by the registrations of the constructor followed by any number of ticks.
C1_UnRobotPorCelda ==
    \A i \in 1..Len(robots), j \in 1..Len(robots) :
        i # j => robotObj[robots[i]].pos # robotObj[robots[j]].pos

\* a robot found another robot in the cell ahead and turned instead of
\* advancing, after the other robot had advanced
C1_Testigo ==
    /\ evento.agente = "robot"
    /\ percepcion.roboscanner
    /\ evento.accion = "REORIENTADOR"
    /\ Len(robots) = 2
    /\ \E r \in RobotsRegistrados :
          r # evento.ref /\ robotObj[r].pos # robotObj[r].posicion_anterior

\* C2: at the end of every agent turn every registered robot and every
\* registered monster stands on an in-bounds cell of type Zona Libre.
C2_AgentesEnZonaLibre ==
    /\ \A r \in RobotsRegistrados :
          robotObj[r].pos \in Celdas /\ grid[robotObj[r].pos] = ZONA_LIBRE
    /\ \A m \in MonstruosRegistrados :
          monstruoObj[m].pos \in Celdas /\ grid[monstruoObj[m].pos] = ZONA_LIBRE

\* a Vacuumator has turned a cell into Zona Vacia while a robot and a monster
\* remain registered, and that monster has moved
C2_Testigo ==
    /\ evento.agente = "robot"
    /\ evento.accion = "VACUUMATOR"
    /\ grid[robotObj[evento.ref].pos] = ZONA_VACIA
    /\ Len(robots) = 1
    /\ \E m \in MonstruosRegistrados : monstruoObj[m].acciones_realizadas > 0

\* C3: no two registered monsters occupy the same cell, after any sequence
\* of ticks.
C3_UnMonstruoPorCelda ==
    \A i \in 1..Len(monstruos), j \in 1..Len(monstruos) :
        i # j => monstruoObj[monstruos[i]].pos # monstruoObj[monstruos[j]].pos

\* C4: a robot whose energometro reads true selects VACUUMATOR, whatever the
\* other three components of the percept are.
C4_EnergometroDestruye ==
    (fase = "decidido" /\ percepcion.energometro) => decision.accion = "VACUUMATOR"

\* the decision was taken with every other sensor active as well
C4_Testigo ==
    /\ fase = "decidido"
    /\ percepcion.energometro
    /\ percepcion.roboscanner
    /\ percepcion.vacuscopio
    /\ percepcion.monstroscopio[2] = "al_lado"
    /\ decision.accion = "VACUUMATOR"

\* the strict first-match priority procedure
PrioridadAccion(p) ==
    IF p.energometro THEN "VACUUMATOR"
    ELSE IF p.vacuscopio THEN "REORIENTADOR"
    ELSE IF p.roboscanner THEN "REORIENTADOR"
    ELSE IF p.monstroscopio[1] /\ p.monstroscopio[2] = "al_frente" THEN "PROPULSOR"
    ELSE IF p.monstroscopio[1] /\ p.monstroscopio[2] = "al_lado" THEN "REORIENTADOR"
    ELSE "PROPULSOR"

PrioridadParam(p) ==
    IF p.vacuscopio \/ p.roboscanner THEN "+90" ELSE p.monstroscopio[3]

\* C5: on each of the 24 keys decidir_accion returns the action of the
\* priority procedure, and a rotation carries the parameter of its tier
\* ("+90" for tiers 2 and 3, the detected direction for tier 4).
C5_DecisionPorPrioridad ==
    fase = "decidido" =>
        /\ decision.accion = PrioridadAccion(percepcion)
        /\ decision.accion = "REORIENTADOR" => decision.param = PrioridadParam(percepcion)

\* tier 4 fired for a monster on a vertical side
C5_Testigo ==
    /\ fase = "decidido"
    /\ ~ percepcion.energometro
    /\ ~ percepcion.vacuscopio
    /\ ~ percepcion.roboscanner
    /\ percepcion.monstroscopio[2] = "al_lado"
    /\ percepcion.monstroscopio[3] \in {"+Z", "-Z"}
    /\ decision.accion = "REORIENTADOR"
    /\ decision.param = percepcion.monstroscopio[3]

\* C6: once the Vacuumator of a robot has fired with a monster in its cell,
\* no registered monster stands on that cell, the robot's id is not in the
\* registry of robots and the cell is Zona Vacia.
C6_DestruccionCompleta ==
    \A r \in 1..Len(robotObj) :
        UltimaAccion(r) = "VACUUMATOR" =>
            /\ \A k \in RobotsRegistrados : robotObj[k].id # robotObj[r].id
            /\ \A m \in MonstruosRegistrados : monstruoObj[m].pos # robotObj[r].pos
            /\ obtener_tipo_celda(grid, robotObj[r].pos) = ZONA_VACIA

\* the tick has ended and a single Vacuumator removed both monsters, which
\* shared the cell of the robot
C6_Testigo ==
    /\ tick_actual >= 1
    /\ Len(monstruos) = 0
    /\ Len(monstruoObj) = Nmonstruos
    /\ Cardinality({r \in 1..Len(robotObj) : UltimaAccion(r) = "VACUUMATOR"}) = 1

\* C7: whenever the Vacuumator is invoked the acting robot is removed from
\* the registry of robots, whatever the outcome.
C7_DestruirEliminaRobot ==
    (evento.agente = "robot" /\ evento.accion = "VACUUMATOR") =>
        \A k \in RobotsRegistrados : robotObj[k].id # robotObj[evento.ref].id

\* C8: a call of the Propulsor moves the robot to the cell ahead exactly when
\* that cell is Zona Libre, clearing the Vacuscopio flag and reporting
\* success; otherwise the position stays, the flag is set and a collision is
\* reported. The grid never changes.
C8_Avance ==
    [][(llamadas' = llamadas + 1 /\ evento'.accion = "PROPULSOR") =>
        LET antes == robotObj[evento'.ref]
            despues == robotObj'[evento'.ref]
            frente == Sumar(antes.pos, ORIENTACIONES[antes.orientacion])
        IN /\ grid' = grid
           /\ despues.orientacion = antes.orientacion
           /\ IF frente \in Celdas /\ grid[frente] = ZONA_LIBRE
              THEN /\ despues.pos = frente
                   /\ ~ despues.vacuscopio_activado
                   /\ evento'.exito
              ELSE /\ despues.pos = antes.pos
                   /\ despues.vacuscopio_activado
                   /\ ~ evento'.exito
                   /\ evento'.razon = "colision_con_pared"]_vars

\* a robot registered on the centre cell facing +X has advanced to the cell
\* ahead, next to the outside of the cube
C8_Testigo ==
    /\ evento.agente = "robot"
    /\ evento.accion = "PROPULSOR"
    /\ evento.exito
    /\ robotObj[evento.ref].orientacion = "+X"
    /\ robotObj[evento.ref].posicion_anterior = Centro
    /\ robotObj[evento.ref].pos = Sumar(Centro, ORIENTACIONES["+X"])
    /\ ~ robotObj[evento.ref].vacuscopio_activado

\* the step is the turn of robot r in the robot loop of a tick
Turno(r) ==
    fase = "robots" /\ cola # <<>> /\ Head(cola) = r /\ cola' = Tail(cola)

\* C9: a colliding advance leaves the Vacuscopio flag set, the flag is kept
\* until the robot's next turn, and in that turn the Vacuscopio reads true
\* and, unless a monster is in the robot's cell, the robot rotates "+90".
C9_ColisionGira ==
    [][\A r \in 1..Len(robotObj) :
        /\ (Turno(r) /\ evento'.accion = "PROPULSOR" /\ ~ evento'.exito)
              => robotObj'[r].vacuscopio_activado
        /\ ~ Turno(r)
              => robotObj'[r].vacuscopio_activado = robotObj[r].vacuscopio_activado
        /\ (Turno(r) /\ robotObj[r].vacuscopio_activado)
              => /\ percepcion'.vacuscopio
                 /\ ~ percepcion'.energometro
                       => /\ decision'.accion = "REORIENTADOR"
                          /\ decision'.param = "+90"
                          /\ evento'.accion = "REORIENTADOR"]_vars

\* the robot collided on the previous tick and now rotated for that reason
C9_Testigo ==
    /\ tick_actual >= 1
    /\ evento.agente = "robot"
    /\ percepcion.vacuscopio
    /\ ~ percepcion.energometro
    /\ decision.razon = "obstaculo_detectado"
    /\ evento.accion = "REORIENTADOR"
    /\ UltimaAccion(evento.ref) = "REORIENTADOR"
    /\ Len(robotObj[evento.ref].historial) >= 2
    /\ robotObj[evento.ref].historial[Len(robotObj[evento.ref].historial) - 1].a = "PROPULSOR"

\* C10: a registration succeeds only on an in-bounds Zona Libre cell that
\* holds no registered agent of the same kind, and a successful registration
\* adds exactly one entry, for the new agent, to the registry of its kind.
C10_RegistroSeguro ==
    [][/\ (registro'.llamada = "registrar_robot" /\ registro'.ok) =>
            /\ registro'.pos \in Celdas
            /\ grid[registro'.pos] = ZONA_LIBRE
            /\ \A r \in RobotsRegistrados : robotObj[r].pos # registro'.pos
            /\ Len(robots') = Len(robots) + 1
            /\ \A k \in 1..Len(robots) : robots'[k] = robots[k]
            /\ robotObj'[robots'[Len(robots')]].pos = registro'.pos
            /\ robotObj'[robots'[Len(robots')]].id = registro'.id
            /\ robots'[Len(robots')] \notin RobotsRegistrados
            /\ monstruos' = monstruos
       /\ (registro'.llamada = "registrar_monstruo" /\ registro'.ok) =>
            /\ registro'.pos \in Celdas
            /\ grid[registro'.pos] = ZONA_LIBRE
            /\ \A m \in MonstruosRegistrados : monstruoObj[m].pos # registro'.pos
            /\ Len(monstruos') = Len(monstruos) + 1
            /\ \A k \in 1..Len(monstruos) : monstruos'[k] = monstruos[k]
            /\ monstruoObj'[monstruos'[Len(monstruos')]].pos = registro'.pos
            /\ monstruoObj'[monstruos'[Len(monstruos')]].id = registro'.id
            /\ monstruos'[Len(monstruos')] \notin MonstruosRegistrados
            /\ robots' = robots]_vars

\* a monster was accepted on the cell of a registered robot
C10_Testigo ==
    /\ registro.llamada = "registrar_monstruo"
    /\ registro.ok
    /\ Len(monstruos) = 1
    /\ \E r \in RobotsRegistrados : robotObj[r].pos = registro.pos

\* C11: a rejected registration (Zona Vacia, out of bounds included, or a
\* cell held by an agent of the same kind) leaves the grid, the registry of
\* robots and the registry of monsters, and every agent in them, as before.
C11_RechazoSinMutacion ==
    [][(registro'.llamada \in {"registrar_robot", "registrar_monstruo"}
            /\ registro' # registro /\ ~ registro'.ok) =>
        /\ \/ obtener_tipo_celda(grid, registro'.pos) = ZONA_VACIA
           \/ registro'.llamada = "registrar_robot"
                 /\ \E r \in RobotsRegistrados : robotObj[r].pos = registro'.pos
           \/ registro'.llamada = "registrar_monstruo"
                 /\ \E m \in MonstruosRegistrados : monstruoObj[m].pos = registro'.pos
        /\ grid' = grid
        /\ robots' = robots
        /\ monstruos' = monstruos
        /\ RobotsEn(Mundo)' = RobotsEn(Mundo)
        /\ MonstruosEn(Mundo)' = MonstruosEn(Mundo)]_vars

\* a monster was rejected on the Zona Libre cell of the registered monster
C11_Testigo ==
    /\ registro.llamada = "registrar_monstruo"
    /\ ~ registro.ok
    /\ registro.pos \in Celdas
    /\ grid[registro.pos] = ZONA_LIBRE
    /\ Len(monstruos) = 1
    /\ monstruoObj[monstruos[1]].pos = registro.pos

\* C12: every cell on the outer shell of the cube (a coordinate equal to 0
\* or to N - 1) of a generated grid is Zona Vacia.
C12_CapaExteriorVacia ==
    \A c \in Celdas :
        (\E i \in 1..3 : c[i] = 0 \/ c[i] = N - 1) => grid[c] = ZONA_VACIA

\* C13: the cell query answers for every coordinate triple: Zona Vacia when
\* some axis is outside [0, N), the stored value of the cell otherwise.
C13_ConsultaTotal ==
    registro.llamada = "obtener_tipo_celda" =>
        /\ registro.tipo \in {ZONA_LIBRE, ZONA_VACIA}
        /\ (\E i \in 1..3 : registro.pos[i] < 0 \/ registro.pos[i] >= N)
              => registro.tipo = ZONA_VACIA
        /\ (\A i \in 1..3 : 0 <= registro.pos[i] /\ registro.pos[i] < N)
              => registro.tipo = grid[registro.pos]

\* the query one step below the cube on the X axis, level with a Zona Libre
\* cell of the opposite face
C13_Testigo ==
    /\ registro.llamada = "obtener_tipo_celda"
    /\ registro.pos = <<-1, Centro[2], Centro[3]>>
    /\ grid[<<N - 1, Centro[2], Centro[3]>>] = ZONA_LIBRE
    /\ registro.tipo = ZONA_VACIA

\* the step is the turn of monster m in the monster loop of a tick
TurnoMonstruo(m) ==
    fase = "monstruos" /\ cola # <<>> /\ Head(cola) = m /\ cola' = Tail(cola)

\* C14: on a tick that is not a multiple of K the action of a monster is
\* "inactivo" with reason "no_en_ciclo" whatever the random draws, and its
\* position stays; a monster changes position only on multiples of K.
C14_FueraDeCiclo ==
    [][\A m \in 1..Len(monstruoObj) :
        /\ (TurnoMonstruo(m) /\ tick_actual % K_monstruo # 0) =>
              /\ evento'.agente = "monstruo"
              /\ evento'.ref = m
              /\ evento'.accion = "inactivo"
              /\ evento'.razon = "no_en_ciclo"
              /\ ~ evento'.exito
              /\ monstruoObj'[m] = monstruoObj[m]
        /\ monstruoObj'[m].pos # monstruoObj[m].pos =>
              /\ TurnoMonstruo(m)
              /\ tick_actual % K_monstruo = 0]_vars

\* a monster that moved on tick 0 and has a valid neighbour stayed idle on
\* tick 1
C14_Testigo ==
    /\ evento.agente = "monstruo"
    /\ evento.tick = 1
    /\ evento.razon = "no_en_ciclo"
    /\ monstruoObj[evento.ref].acciones_realizadas = 1
    /\ percibir_monstruo(Mundo, monstruoObj[evento.ref]).puede_moverse

\* C15: when a monster moves, its destination is one of the six orthogonal
\* neighbours of its cell, inside the cube and not Zona Vacia, whoever is in
\* it; so a registered monster is always inside the cube and never on a
\* Zona Vacia cell.
C15_DestinoValido ==
    [][/\ \A m \in 1..Len(monstruoObj) :
            monstruoObj'[m].pos # monstruoObj[m].pos =>
               /\ \E l \in DOMAIN ORIENTACIONES :
                     monstruoObj'[m].pos = Sumar(monstruoObj[m].pos, ORIENTACIONES[l])
               /\ monstruoObj'[m].pos \in Celdas
               /\ grid[monstruoObj'[m].pos] # ZONA_VACIA
               /\ grid'[monstruoObj'[m].pos] # ZONA_VACIA
       /\ \A k \in 1..Len(monstruos') :
            /\ monstruoObj'[monstruos'[k]].pos \in Celdas
            /\ grid'[monstruoObj'[monstruos'[k]].pos] # ZONA_VACIA]_vars

\* a monster moved to the cell of another registered monster
C15_Testigo ==
    /\ evento.agente = "monstruo"
    /\ evento.accion = "mover"
    /\ evento.exito
    /\ evento.ref \in MonstruosRegistrados
    /\ \E m \in MonstruosRegistrados :
          /\ m # evento.ref
          /\ monstruoObj[m].pos = monstruoObj[evento.ref].pos

Horizontales == {"+X", "+Y", "-X", "-Y"}

\* C16: the Reorientador always succeeds and changes neither the position
\* nor the grid; a relative turn ("+90" / "-90") leaves an orientation of
\* the horizontal set; from a horizontal orientation "+90" followed by "-90"
\* gives the orientation back, and so do four "+90"; an absolute alignment
\* sets exactly the direction given and is the only way to reach +Z or -Z.
C16_Reorientar ==
    [][traza' # traza =>
        LET n == Len(traza')
            sentido == traza'[n].sentido
            nueva == robotObj'[1].orientacion
        IN /\ evento'.accion = "REORIENTADOR"
           /\ evento'.exito
           /\ grid' = grid
           /\ robots' = robots
           /\ robotObj'[1].pos = robotObj[1].pos
           /\ robotObj' = [robotObj EXCEPT ![1].orientacion = nueva]
           /\ sentido \in {"+90", "-90"} => nueva \in Horizontales
           /\ sentido \in DOMAIN ORIENTACIONES => nueva = sentido
           /\ nueva \in {"+Z", "-Z"} => sentido = nueva
           /\ (/\ n >= 2
               /\ traza'[n - 1].antes \in Horizontales
               /\ traza'[n - 1].sentido = "+90"
               /\ sentido = "-90") => nueva = traza'[n - 1].antes
           /\ (/\ n >= 4
               /\ traza'[n - 3].antes \in Horizontales
               /\ \A k \in (n - 3)..n : traza'[k].sentido = "+90")
                  => nueva = traza'[n - 3].antes]_vars

\* four "+90" turns were made from +Y, passing through -X, -Y and +X
C16_Testigo ==
    /\ Len(traza) = 4
    /\ traza[1].antes = "+Y"
    /\ \A k \in 1..4 : traza[k].sentido = "+90"
    /\ traza[2].antes = "-X"
    /\ traza[4].antes = "+X"
    /\ robotObj[1].orientacion = "+Y"
    /\ evento.exito

\* C17: within one tick every monster acts before any robot, an agent's
\* cycle is complete (its event returned) before the next agent begins, and
\* no agent acts twice in a tick.
C17_OrdenDelTick ==
    /\ \A i \in 1..Len(traza), j \in 1..Len(traza) :
          i < j =>
             /\ traza[i].tick <= traza[j].tick
             /\ traza[i] # traza[j]
             /\ (traza[i].tick = traza[j].tick /\ traza[i].agente = "robot")
                   => traza[j].agente = "robot"
    /\ traza # <<>> =>
          /\ evento.agente = traza[Len(traza)].agente
          /\ evento.ref = traza[Len(traza)].ref
          /\ evento.tick = traza[Len(traza)].tick
    /\ fase = "monstruos" => \A i \in 1..Len(traza) : traza[i].tick < tick_actual
                                  \/ traza[i].agente = "monstruo"

\* two ticks in which both monsters acted and then both robots
C17_Testigo ==
    /\ Len(traza) = 8
    /\ traza[1].agente = "monstruo" /\ traza[2].agente = "monstruo"
    /\ traza[3].agente = "robot" /\ traza[4].agente = "robot"
    /\ traza[4].tick = 0
    /\ traza[5].agente = "monstruo" /\ traza[5].tick = 1
    /\ traza[8].agente = "robot" /\ traza[8].ref # traza[7].ref

\* number of cycles robot r has run
CiclosDe(r) ==
    Cardinality({i \in 1..Len(traza) : traza[i].agente = "robot" /\ traza[i].ref = r})

\* C18: a cycle of a robot appends exactly one record (tick, summary of the
\* percept, chosen action) to the history of that robot; earlier records are
\* never changed or removed, so the length of the history is the number of
\* cycles the robot has run; the history of every other robot stays.
C18_MemoriaPropia ==
    [][\A r \in 1..Len(robotObj) :
        /\ Turno(r) =>
              LET antes == robotObj[r].historial
                  despues == robotObj'[r].historial
                  ultimo == despues[Len(despues)]
              IN /\ Len(despues) = Len(antes) + 1
                 /\ \A k \in 1..Len(antes) : despues[k] = antes[k]
                 /\ ultimo.t = tick_actual
                 /\ ultimo.a = decision'.accion
                 /\ ultimo.p.ori = percepcion'.giroscopio
                 /\ ultimo.p.E = percepcion'.energometro
                 /\ ultimo.p.R = percepcion'.roboscanner
                 /\ ultimo.p.V = percepcion'.vacuscopio
                 /\ ultimo.p.pos_prev = percepcion'.posicion_anterior
        /\ ~ Turno(r) => robotObj'[r].historial = robotObj[r].historial
        /\ Len(robotObj'[r].historial) = CiclosDe(r)']_vars

\* on tick 1 a robot has run its second cycle and the other robot has not
C18_Testigo ==
    /\ fase = "robots"
    /\ tick_actual = 1
    /\ \E r \in RobotsRegistrados, q \in RobotsRegistrados :
          /\ Len(robotObj[r].historial) = 2
          /\ robotObj[r].historial[1].t = 0
          /\ robotObj[r].historial[2].t = 1
          /\ Len(robotObj[q].historial) = 1

\* C19: loop detection never reports a loop whose repetition count is below
\* the threshold, and never reports a loop on a history shorter than the
\* minimum pattern length times the minimum number of repetitions.
C19_BucleFiable ==
    (registro.llamada = "detectar_bucle" /\ registro.detectado) =>
        /\ registro.repeticiones >= registro.repeticiones_minimas
        /\ registro.repeticiones >= 2
        /\ registro.longitud >= registro.longitud_minima
        /\ Len(robotObj[1].historial) >=
              registro.longitud_minima * registro.repeticiones_minimas

\* a pattern of two records seen twice in a history of four records
C19_Testigo ==
    /\ registro.llamada = "detectar_bucle"
    /\ registro.detectado
    /\ registro.longitud_minima = 2
    /\ registro.repeticiones_minimas = 2
    /\ Len(robotObj[1].historial) = 4
    /\ robotObj[1].historial[1].a # robotObj[1].historial[2].a
    /\ registro.longitud = 2
    /\ registro.repeticiones = 2

\* C20: a removal by id never fails; with an id that is not registered it
\* leaves both registries and the grid as they are, removing the same id a
\* second time changes nothing more, and the removal of an agent of one kind
\* never changes the registry of the other kind.
C20_EliminarIdempotente ==
    [][/\ registro'.llamada = "eliminar_robot" =>
            /\ grid' = grid
            /\ monstruos' = monstruos
            /\ MonstruosEn(Mundo)' = MonstruosEn(Mundo)
            /\ (\A r \in RobotsRegistrados : robotObj[r].id # registro'.id)
                  => robots' = robots
            /\ registro' = registro => robots' = robots
            /\ \A k \in 1..Len(robots') : robotObj'[robots'[k]].id # registro'.id
            /\ \A r \in RobotsRegistrados :
                  robotObj[r].id # registro'.id => r \in RobotsRegistrados'
            /\ eliminar_robot(Mundo', registro'.id) = Mundo'
       /\ registro'.llamada = "eliminar_monstruo" =>
            /\ grid' = grid
            /\ robots' = robots
            /\ RobotsEn(Mundo)' = RobotsEn(Mundo)
            /\ (\A m \in MonstruosRegistrados : monstruoObj[m].id # registro'.id)
                  => monstruos' = monstruos
            /\ registro' = registro => monstruos' = monstruos
            /\ \A k \in 1..Len(monstruos') : monstruoObj'[monstruos'[k]].id # registro'.id
            /\ \A m \in MonstruosRegistrados :
                  monstruoObj[m].id # registro'.id => m \in MonstruosRegistrados'
            /\ eliminar_monstruo(Mundo', registro'.id) = Mundo']_vars

\* a robot id that is not registered was removed while robot 1 and a monster
\* are registered
C20_Testigo ==
    /\ registro.llamada = "eliminar_robot"
    /\ registro.id = 2
    /\ Len(robots) = 1
    /\ robotObj[robots[1]].id = 1
    /\ Len(monstruos) = 1

\* C21: two environments built with the same N, proportions and seed have
\* the same grid, and the same registration calls made on both are accepted
\* and rejected alike.
C21_Reproducible ==
    (/\ replica.construidos = 2
     /\ replica.semillas[1] # NoSemilla
     /\ replica.semillas[1] = replica.semillas[2]) =>
        /\ replica.w.grid = grid
        /\ replica.aceptados[1] = replica.aceptados[2]
        /\ RobotsEn(replica.w) = RobotsEn(Mundo)

\* both environments were built with seed 2, whose stream differs from that
\* of seed 1; a first registration was accepted on both, a second rejected
C21_Testigo ==
    /\ replica.construidos = 2
    /\ replica.semillas = <<2, 2>>
    /\ azar.flujo[1] # azar.flujo[2]
    /\ \E c \in Arena : grid[c] = ZONA_LIBRE
    /\ replica.aceptados = <<<<TRUE, FALSE>>, <<TRUE, FALSE>>>>

\* C22: no error leaves the cycle of an agent: every call a driver makes to
\* percibir_decidir_actuar of a robot or a monster completes and returns its
\* event.
C22_SinErrorPropagado ==
    /\ fase # "TypeError"
    /\ fase = "fin" =>
          \A k \in 1..Len(robots) :
             \E i \in 1..Len(traza) :
                traza[i].agente = "robot" /\ traza[i].ref = robots[k]

\* C23: construction fails exactly when the size is invalid: for N < 1 an
\* error is reported and no environment is created, and for every N >= 1,
\* whatever the draws and the seed, an environment is created.
C23_ConstruccionValida ==
    registro.llamada = "__init__" =>
        /\ registro.error # None <=> registro.N < 1
        /\ registro.error # None => (fase = "error" /\ grid = <<>>)
        /\ registro.error = None =>
              /\ fase = "construido"
              /\ DOMAIN grid = CeldasDe(IF registro.clase = "Mundo"
                                        THEN registro.N + 2 ELSE registro.N)
              /\ \A c \in DOMAIN grid : grid[c] \in {ZONA_LIBRE, ZONA_VACIA}

\* C24: the grid is monotone: a step that changes the grid changes one cell,
\* from Zona Libre to Zona Vacia, and that cell is the one of the robot whose
\* turn executed the Vacuumator (so no Zona Vacia ever becomes a Zona Libre);
\* after every later step the cell of a robot removed by its Vacuumator is
\* still a Zona Vacia and a registration of a robot or of a monster there is
\* rejected.
C24_GridMonotono ==
    [][/\ grid' # grid =>
             \E r \in RobotsRegistrados :
                /\ Turno(r)
                /\ evento'.accion = "VACUUMATOR"
                /\ grid[robotObj[r].pos] = ZONA_LIBRE
                /\ grid' = [grid EXCEPT ![robotObj[r].pos] = ZONA_VACIA]
       /\ \A r \in (1..Len(robotObj')) \ RobotsRegistrados' :
             LET c == robotObj'[r].pos
             IN /\ grid'[c] = ZONA_VACIA
                /\ ~ registrar_robot(Mundo', NuevoRobot(Nrobots + 1, c, "+X")).ok
                /\ ~ registrar_monstruo(Mundo', NuevoMonstruo(Nmonstruos + 1, c)).ok
      ]_vars

\* a robot has executed the Vacuumator and its cell, free before, is a Zona Vacia
C24_Testigo ==
    /\ evento.agente = "robot"
    /\ evento.accion = "VACUUMATOR"
    /\ evento.exito
    /\ evento.ref \notin RobotsRegistrados
    /\ grid[robotObj[evento.ref].pos] = ZONA_VACIA

\* C25: a robot that has not fired its Vacuumator keeps acting on every tick:
\* when the driver ejecutar has stopped, every robot still registered whose
\* last action is not the Vacuumator has acted in each of the MaxTick ticks
\* of the run.
C25_SigueActuando ==
    fase \in {"fin", "TypeError"} =>
        \A r \in RobotsRegistrados :
           UltimaAccion(r) # "VACUUMATOR" =>
              \A t \in 0..(MaxTick - 1) :
                 \E i \in 1..Len(traza) :
                    traza[i] = [agente |-> "robot", ref |-> r, tick |-> t]

\* C26: the removals made during a tick do not corrupt it: when the robot loop
\* of a tick is exhausted every robot still registered has acted exactly once
\* in that tick and no robot has acted twice, and what a robot perceives in
\* its turn comes from agents registered at that moment: the Energometro from
\* a registered monster in its cell, the Monstroscopio from a registered
\* monster in the neighbour cell it names, the Roboscanner from another
\* registered robot in the cell ahead.
C26_TickSinCorrupcion ==
    [][/\ (fase = "robots" /\ cola = <<>>) =>
             /\ \A r \in RobotsRegistrados :
                   Cardinality({i \in 1..Len(traza) :
                       traza[i] = [agente |-> "robot", ref |-> r,
                                   tick |-> tick_actual]}) = 1
             /\ \A r \in (1..Len(robotObj)) \ RobotsRegistrados :
                   Cardinality({i \in 1..Len(traza) :
                       traza[i].agente = "robot" /\ traza[i].ref = r
                       /\ traza[i].tick = tick_actual}) <= 1
       /\ \A r \in 1..Len(robotObj) :
             Turno(r) =>
                /\ percepcion'.energometro =>
                      \E m \in MonstruosRegistrados :
                         monstruoObj[m].pos = robotObj[r].pos
                /\ percepcion'.monstroscopio[1] =>
                      \E m \in MonstruosRegistrados :
                         monstruoObj[m].pos =
                            Sumar(robotObj[r].pos,
                                  ORIENTACIONES[percepcion'.monstroscopio[3]])
                /\ percepcion'.roboscanner =>
                      \E q \in RobotsRegistrados \ {r} :
                         robotObj[q].pos =
                            Sumar(robotObj[r].pos,
                                  ORIENTACIONES[robotObj[r].orientacion])
      ]_vars

\* a robot and the monster of its cell were removed by a Vacuumator, and the
\* robot acting next in the same tick, facing that cell, perceived neither
\* and collided with the new Zona Vacia
C26_Testigo ==
    /\ Len(traza) >= 2
    /\ LET a == traza[Len(traza) - 1]
           b == traza[Len(traza)]
       IN /\ a.agente = "robot" /\ b.agente = "robot"
          /\ a.tick = b.tick
          /\ a.ref \notin RobotsRegistrados
          /\ b.ref \in RobotsRegistrados
          /\ evento.ref = b.ref
          /\ \E m \in (1..Len(monstruoObj)) \ MonstruosRegistrados :
                monstruoObj[m].pos = robotObj[a.ref].pos
          /\ robotObj[a.ref].pos =
                Sumar(robotObj[b.ref].pos, ORIENTACIONES[percepcion.giroscopio])
          /\ ~ percepcion.roboscanner
          /\ ~ percepcion.monstroscopio[1]
          /\ evento.accion = "PROPULSOR"
          /\ ~ evento.exito

\* C27: the Vacuscopio flag is transient: a robot that has not acted yet has
\* it unset; after a robot's turn the flag is set if and only if the action of
\* that turn was a Propulsor that collided; it does not change outside the
\* robot's turns, and the Vacuscopio reading of a turn is the flag at the
\* start of the turn. So at the start of a turn the flag tells whether the
\* preceding action of the robot was a colliding advance, and it never stays
\* set over a turn without a new collision.
C27_VacuscopioTransitorio ==
    [][\A r \in 1..Len(robotObj) :
        /\ Len(robotObj[r].historial) = 0 => ~ robotObj[r].vacuscopio_activado
        /\ Turno(r) =>
              /\ percepcion'.vacuscopio = robotObj[r].vacuscopio_activado
              /\ robotObj'[r].vacuscopio_activado =
                    (evento'.accion = "PROPULSOR" /\ ~ evento'.exito)
        /\ (~ Turno(r) /\ r \in 1..Len(robotObj)) =>
              robotObj'[r].vacuscopio_activado = robotObj[r].vacuscopio_activado
      ]_vars

\* a robot whose flag was set by a collision has rotated in its next turn and
\* the flag is unset again
C27_Testigo ==
    /\ evento.agente = "robot"
    /\ evento.accion = "REORIENTADOR"
    /\ percepcion.vacuscopio
    /\ ~ robotObj[evento.ref].vacuscopio_activado
    /\ Len(robotObj[evento.ref].historial) >= 2
    /\ robotObj[evento.ref].historial[Len(robotObj[evento.ref].historial) - 1].a
          = "PROPULSOR"

\* C28: when the rule "alinear_con_monstruo" of level 4 fires (monster
\* classified "al_lado", no monster in the cell, no collision flag, no robot
\* ahead), the orientation of the robot after the turn is the label reported
\* by the Monstroscopio and its position is unchanged; and in the robot's next
\* turn, no agent having moved in between (the tick is not a multiple of
\* K_monstruo, so the monsters stayed), the Monstroscopio classifies the
\* monster as "al_frente" with that label.
C28_AlinearConMonstruo ==
    [][\A r \in 1..Len(robotObj) :
        /\ (Turno(r) /\ decision'.razon = "alinear_con_monstruo") =>
              /\ robotObj'[r].orientacion = percepcion'.monstroscopio[3]
              /\ robotObj'[r].pos = robotObj[r].pos
        /\ ( /\ Turno(r)
             /\ tick_actual % K_monstruo # 0
             /\ UltimaAccion(r) = "REORIENTADOR"
             /\ LET p == robotObj[r].historial[Len(robotObj[r].historial)].p
                IN ~ p.E /\ ~ p.R /\ p.M /\ ~ p.V ) =>
              percepcion'.monstroscopio =
                 <<TRUE, "al_frente", robotObj[r].orientacion>>
      ]_vars

\* C29: in every turn of a robot the Monstroscopio reports a detection if and
\* only if a registered monster occupies one of the five neighbour cells other
\* than the cell behind the robot (a monster only behind, or only in the
\* robot's cell, is not detected); the label reported is the direction of one
\* of those occupied cells, classified "al_frente" exactly when it is the
\* robot's orientation; without detection the reading is (False, None, None).
C29_Monstroscopio ==
    [][\A r \in 1..Len(robotObj) :
        Turno(r) =>
           LET self == robotObj[r]
               atras == Negar(ORIENTACIONES[self.orientacion])
               escaneados == {l \in DOMAIN ORIENTACIONES : ORIENTACIONES[l] # atras}
               ocupados == {l \in escaneados :
                               \E m \in MonstruosRegistrados :
                                  monstruoObj[m].pos =
                                     Sumar(self.pos, ORIENTACIONES[l])}
               lectura == percepcion'.monstroscopio
           IN /\ Cardinality(escaneados) = 5
              /\ lectura[1] <=> ocupados # {}
              /\ lectura[1] =>
                    /\ lectura[3] \in ocupados
                    /\ lectura[2] = IF lectura[3] = self.orientacion
                                    THEN "al_frente" ELSE "al_lado"
              /\ ~ lectura[1] => lectura = <<FALSE, None, None>>
      ]_vars

\* a robot with a monster in the cell behind it detected nothing and advanced
C29_Testigo ==
    /\ evento.agente = "robot"
    /\ evento.accion = "PROPULSOR"
    /\ evento.exito
    /\ ~ percepcion.monstroscopio[1]
    /\ \E m \in MonstruosRegistrados :
          monstruoObj[m].pos =
             Sumar(robotObj[evento.ref].posicion_anterior,
                   Negar(ORIENTACIONES[percepcion.giroscopio]))

\* C30: in every turn of a robot with a registered monster in the cell ahead,
\* the Monstroscopio reads (True, "al_frente", orientation of the robot)
\* whatever the other scanned neighbours hold, and with no monster in the
\* cell, no robot ahead and no collision flag the robot chooses the Propulsor.
C30_FrentePrimero ==
    [][\A r \in 1..Len(robotObj) :
        ( /\ Turno(r)
          /\ \E m \in MonstruosRegistrados :
                monstruoObj[m].pos =
                   Sumar(robotObj[r].pos, ORIENTACIONES[robotObj[r].orientacion]) ) =>
           /\ percepcion'.monstroscopio =
                 <<TRUE, "al_frente", robotObj[r].orientacion>>
           /\ ( /\ ~ percepcion'.energometro
                /\ ~ percepcion'.roboscanner
                /\ ~ percepcion'.vacuscopio ) => decision'.accion = "PROPULSOR"
      ]_vars

\* C31: ejecutar runs every tick while an agent remains registered: when
\* ejecutar has returned, either the MaxTick ticks of the run were executed or
\* no robot and no monster is registered.
C31_TodosLosTicks ==
    fase = "fin" =>
        \/ tick_actual = MaxTick
        \/ (robots = <<>> /\ monstruos = <<>>)

\* C32: through the whole cycle percibir -> decidir -> actuar a chosen
\* Vacuumator always succeeds: whenever the last event is a robot's
\* Vacuumator, it was chosen on an Energometro reading, it reports exito with
\* the reason "monstruo_destruido" (never "sin_objetivos"), and a monster that
\* stood in the robot's cell is no longer registered.
C32_VacuumatorConObjetivo ==
    (evento.agente = "robot" /\ evento.accion = "VACUUMATOR") =>
        /\ percepcion.energometro
        /\ evento.exito
        /\ evento.razon = "monstruo_destruido"
        /\ \E m \in (1..Len(monstruoObj)) \ MonstruosRegistrados :
              monstruoObj[m].pos = robotObj[evento.ref].pos
        /\ ~ \E m \in MonstruosRegistrados :
                monstruoObj[m].pos = robotObj[evento.ref].pos

\* a robot chose the Vacuumator by the rule "monstruo_en_celda" and destroyed
\* the monster of its cell
C32_Testigo ==
    /\ evento.agente = "robot"
    /\ decision.accion = "VACUUMATOR"
    /\ decision.razon = "monstruo_en_celda"
    /\ evento.razon = "monstruo_destruido"
    /\ Len(monstruos) < Len(monstruoObj)

\* C33: after any sequence of agregar_entidad / eliminar_entidad the registry
\* agrees with the entities: the entity stored under a position p has
\* posicion = p, and no entity is stored under two positions.
C33_RegistroConsistente ==
    /\ \A p \in DOMAIN entidades : posicion[entidades[p]] = p
    /\ \A p, q \in DOMAIN entidades : entidades[p] = entidades[q] => p = q

\* C34: eliminar_entidad(e) removes the entry of e or nothing: the entries of
\* the other entities are kept, and when e is stored under no position the
\* registry is unchanged and the call returns False.
C34_EliminarSoloPropia ==
    [][(registro'.llamada = "eliminar_entidad" /\ llamadas' = llamadas + 1) =>
          LET e == registro'.entidad
          IN /\ \A p \in DOMAIN entidades :
                   entidades[p] # e =>
                      (p \in DOMAIN entidades' /\ entidades'[p] = entidades[p])
             /\ (\A p \in DOMAIN entidades : entidades[p] # e) =>
                   (entidades' = entidades /\ ~ registro'.ok)
      ]_vars

\* C35: after a joint destruction of a robot and a monster, no registered
\* monster and no registered robot stands on the cell that the destruction
\* turned into a Zona Vacia.
C35_DestruccionConjuntaCompleta ==
    (registro.llamada = "_ejecutar_accion_robot"
     /\ registro.estado = "destroyed_both") =>
        /\ grid[registro.pos] = ZONA_VACIA
        /\ ~ \E m \in MonstruosRegistrados : monstruoObj[m].pos = registro.pos
        /\ ~ \E r \in RobotsRegistrados : robotObj[r].pos = registro.pos

\* C36: every REORIENTADOR call changes the robot's orientation, from each of
\* the six starting orientations and with either turn parameter; so a robot
\* whose forward cell is blocked (rule P1) comes to face another direction
C36_ReorientarCambia ==
    [][(registro'.llamada \in {"decide_and_act", "_reorientador"}
        /\ (llamadas' = llamadas + 1 \/ tick_actual' = tick_actual + 1)
        /\ registro'.event.action = "REORIENTADOR")
       => robotObj'[registro'.robot].orientation # registro'.antes]_vars

====
